---------------------------- MODULE Spec2Model ----------------------------
(***************************************************************************)
(* A model of the Game Boy (Color) emulator core of rust-gamegboycolor:    *)
(* the CPU step (src/src/cpu.rs) with the interrupt controller             *)
(* (src/src/interrupt.rs), the cartridge controllers (src/src/cartridge),  *)
(* the PPU dot counter (src/src/ppu.rs), the timer (src/src/timer.rs), the *)
(* OAM and VRAM DMA engines of the bus (src/src/bus.rs), the serial port   *)
(* (src/src/serial.rs), the joypad (src/src/joypad.rs), the speed switch  *)
(* (src/src/config.rs) and the APU (src/src/apu.rs).                       *)
(*                                                                         *)
(* Each subsystem has its own specification over the shared variables:     *)
(*   SpecCpu    every opcode, a few steps from reset                       *)
(*   SpecIrq    interrupt-related opcodes, more steps from reset           *)
(*   SpecCart   cartridge reads and writes                                 *)
(*   SpecPpu    PPU dots and LCDC writes                                   *)
(*   SpecTimer  timer ticks and register writes                            *)
(*   SpecDma    OAM DMA ticks and CPU writes                               *)
(*   SpecHdma   VRAM DMA: machine cycles and writes to $FF51-$FF55         *)
(*   SpecSerial serial port ticks and register writes                      *)
(*   SpecStat   PPU dots and accesses to STAT and LYC                      *)
(*   SpecSpeed  STOP and writes to $FF4D                                   *)
(*   SpecJoypad key changes                                                *)
(*   SpecHalt   the opcodes around HALT                                    *)
(*   SpecBus    reads and writes of IF, reads of unmapped addresses        *)
(*   SpecReset  either device before its first step                        *)
(*   SpecMbc1   reads and writes of an MBC1 cartridge                      *)
(*   SpecSave   cartridges of every type code, written to and saved        *)
(*   SpecApu    APU register writes and machine cycles                     *)
(*   SpecLength pulse channels triggered and left to their length timers   *)
(*   SpecDots   PPU dots one by one and LCDC writes                        *)
(*   SpecStatIrq PPU dots with the sources of the LCD-STAT interrupt       *)
(*   SpecMbc2   the RAM of an MBC2 cartridge written and read              *)
(*   SpecMix    the volume and panning registers and the samples mixed     *)
(*   SpecLfsr   the frequency timer of the noise channel                   *)
(*   SpecObj    sprites written to OAM and a scanline rendered             *)
(***************************************************************************)
EXTENDS Integers, Sequences, FiniteSets, TLC

VARIABLES
    cpu,        \* Cpu: registers, ime, halt                    (cpu.rs)
    intr,       \* Interrupt: interrupt_flag, interrupt_enable  (interrupt.rs)
    crash,      \* "" while running, else the panic message
    checks,     \* build profile: TRUE when integer overflow panics (debug)
    last,       \* history: what the last execute_instruction did
    steps,      \* history: number of execute_instruction calls so far
    cart,       \* Cartridge: the MBC variant and its registers  (cartridge/)
    cartOut,    \* history: the last cartridge access and its result
    ppu,        \* Ppu: lx, ly, mode, lcdc bit 7, frame, ...     (ppu.rs)
    ppuHist,    \* history: per-frame counters of the PPU
    timer,      \* Timer                                         (timer.rs)
    timerHist,  \* history: ticks since reset / DIV write / TIMA increment
    dma,        \* Bus.dma: upper_source_address, counter, enable (bus.rs)
    mem,        \* the DMA source page (WRAM) and OAM
    dmaHist,    \* history: ticks and CPU writes since the last $FF46 write
    hdma,       \* Bus.hdma: the VRAM DMA registers              (bus.rs)
    vram,       \* Ppu.vram: the cells written so far            (ppu.rs)
    hdmaHist,   \* history: blocks copied, HBlank entries, the last $FF55 read
    serial,     \* Serial: buf, send_buf, tick_timer, sc         (serial.rs)
    cable,      \* the link cable: its kind and the bytes sent over it
    serialHist, \* history: bytes requested, ticks since the last start
    joypad,     \* Joypad.key_state: the keys held, one bit each (joypad.rs)
    joypadHist, \* history: the key state and IF before the last set_key
    config,     \* Config.speed_switch                           (config.rs)
    statOut,    \* history: the last read of $FF41 and the mode at that time
    busOut,     \* history: the last bus access of $FF0F or an unmapped address
    device_mode, \* Config.device_mode, fixed at construction     (config.rs)
    mbc1Hist,   \* history: the values last written to the MBC1 registers
    cartridge_type, \* Rom.cartridge_type, from header byte $0147   (rom.rs)
    saveOut,    \* the result of the last Cartridge::save_data call
    apu,        \* Apu: master switch, channels, frame sequencer     (apu.rs)
    apuHist,    \* history of the APU: accesses, length clocks since a trigger
    statHist,   \* history: the STAT sources and IF around the last dot
    mbc2Hist,   \* history: the nibble last written to each MBC2 RAM cell
    mixer,      \* Apu.master_volume and panning, and the last sample mixed (apu.rs)
    noiseTimer, \* Noise: clock_shift, divisor_code, frequency_timer, and history
    scan,       \* the sprites in OAM and the line_info of the last scanline (ppu.rs)
    win,        \* the window registers and line counter of the PPU, with their history
    frameRun    \* the call of Context::execute_frame in progress, with its history

vars == <<cpu, intr, crash, checks, last, steps, cart, cartOut, ppu, ppuHist,
          timer, timerHist, dma, mem, dmaHist, hdma, vram, hdmaHist,
          serial, cable, serialHist, joypad, joypadHist, config, statOut,
          busOut, device_mode, mbc1Hist, cartridge_type, saveOut, apu, apuHist,
          statHist,
          mbc2Hist,
          mixer,
          noiseTimer,
          scan,
          win,
          frameRun>>

cpuVars   == <<cpu, intr, crash, checks, last, steps>>
cartVars  == <<cart, cartOut>>
ppuVars   == <<ppu, ppuHist>>
timerVars == <<timer, timerHist>>
dmaVars   == <<dma, mem, dmaHist>>
hdmaVars   == <<hdma, vram, hdmaHist>>
serialVars == <<serial, cable, serialHist>>
joypadVars == <<joypad, joypadHist>>
\* the later variables but busOut, and but mbc1Hist
saveVars   == <<cartridge_type, saveOut>>
apuVars    == <<apu, apuHist>>
lateVars   == <<statHist, mbc2Hist, mixer, noiseTimer, scan, win, frameRun>>
busRest    == <<device_mode, mbc1Hist, saveVars, apuVars, lateVars>>
mbc1Rest   == <<busOut, device_mode, saveVars, apuVars, lateVars>>
saveRest   == <<busOut, device_mode, mbc1Hist, apuVars, lateVars>>
apuRest    == <<busOut, device_mode, mbc1Hist, saveVars, lateVars>>
statRest   == <<busOut, device_mode, mbc1Hist, saveVars, apuVars, mbc2Hist, mixer, noiseTimer, scan, win, frameRun>>
mbc2Rest   == <<busOut, device_mode, mbc1Hist, saveVars, apuVars, statHist, mixer, noiseTimer, scan, win, frameRun>>
noiseRest  == <<busOut, device_mode, mbc1Hist, saveVars, statHist, mbc2Hist, mixer, scan, win, frameRun>>
scanRest   == <<busOut, mbc1Hist, saveVars, apuVars, statHist, mbc2Hist, mixer, noiseTimer, win, frameRun>>
mixRest    == <<busOut, device_mode, mbc1Hist, saveVars, statHist, mbc2Hist, noiseTimer, scan, win, frameRun>>
winRest    == <<busOut, device_mode, mbc1Hist, saveVars, apuVars, statHist, mbc2Hist, mixer, noiseTimer, scan, frameRun>>
frameRest  == <<busOut, device_mode, mbc1Hist, saveVars, apuVars, statHist, mbc2Hist, mixer, noiseTimer, scan, win>>
extVars    == <<busOut, device_mode, mbc1Hist, cartridge_type, saveOut, apu, apuHist, statHist, mbc2Hist, mixer, noiseTimer, scan, win, frameRun>>
ioVars     == <<hdmaVars, serialVars, joypadVars, config, statOut, extVars>>

---------------------------------------------------------------------------
(* Fixed-width integer helpers (Rust u8 / u16 operators).                  *)

RECURSIVE BitAnd(_, _)
BitAnd(x, y) ==
    IF x = 0 \/ y = 0 THEN 0
    ELSE (x % 2) * (y % 2) + 2 * BitAnd(x \div 2, y \div 2)

RECURSIVE BitOr(_, _)
BitOr(x, y) ==
    IF x = 0 THEN y ELSE IF y = 0 THEN x
    ELSE (IF x % 2 = 1 \/ y % 2 = 1 THEN 1 ELSE 0) + 2 * BitOr(x \div 2, y \div 2)

RECURSIVE BitXor(_, _)
BitXor(x, y) ==
    IF x = 0 THEN y ELSE IF y = 0 THEN x
    ELSE ((x + y) % 2) + 2 * BitXor(x \div 2, y \div 2)

Pow2(k) == 2 ^ k

\* bit k of x, as 0 or 1
Bit(x, k) == (x \div Pow2(k)) % 2

\* x with bit k set to b (a bitfield setter)
SetBit(x, k, b) == x - Bit(x, k) * Pow2(k) + (IF b THEN Pow2(k) ELSE 0)

\* u8::trailing_zeros for x in 1..255; 8 for 0
RECURSIVE trailing_zeros(_)
trailing_zeros(x) ==
    IF x = 0 THEN 8 ELSE IF x % 2 = 1 THEN 0 ELSE 1 + trailing_zeros(x \div 2)

\* `x as i8 as u16`: sign extension of a byte to 16 bits
SignExtend(x) == IF x >= 128 THEN 65280 + x ELSE x

Hi(x) == x \div 256
Lo(x) == x % 256

---------------------------------------------------------------------------
(* The CPU (src/src/cpu.rs).  A step is computed on a machine record m     *)
(* that threads the Cpu fields, the interrupt registers and the history of *)
(* the step through the calls of execute_instruction:                      *)
(*   a b c d e h l f pc sp ime halt     Cpu / Registers                    *)
(*   iflag ienable                      Interrupt (raw bytes)              *)
(*   crash checks                       panic message, build profile       *)
(*   inp val val16                      bytes the bus will return, results *)
(*   log nticks                         bus events of the step, in order,  *)
(*                                      and the number of ticks among them *)
(*   raiseAt raiseBits                  the tick at which a peripheral     *)
(*                                      raises IF bits, and which          *)
(*   kind opcode cb arb ... ack ...     history of the step                *)

\* `let r = e;` followed by F(r): e is evaluated once
Bind(e, F(_)) == CHOOSE y \in {F(r) : r \in {e}} : TRUE

Ev(op, addr, val) == [op |-> op, addr |-> addr, val |-> val]

\* a panic: the first one sticks, everything after it is skipped
Panic(m, msg) == IF m.crash = "" THEN [m EXCEPT !.crash = msg] ELSE m

\* integer overflow of `x += 1`, `x -= 1`, `a + 1`: a panic in a build with
\* overflow checks, wrapping otherwise
Overflow(m, overflows) ==
    IF overflows /\ m.checks THEN Panic(m, "attempt to add with overflow") ELSE m

\* Inner1::tick seen from the CPU: the bus and the peripherals advance one
\* machine cycle; a peripheral (PPU, timer, serial) may set bits of IF
Tick(m) ==
    IF m.crash # "" THEN m
    ELSE [m EXCEPT !.log = Append(@, Ev("tick", 0, 0)),
                   !.nticks = @ + 1,
                   !.iflag = IF m.nticks + 1 = m.raiseAt
                             THEN BitOr(@, m.raiseBits) ELSE @]

\* Bus::read as far as the CPU model goes: IF and IE are state, every other
\* address returns the next input byte
bus_read(m, address, x) ==
    IF address = 65295 THEN BitOr(224, m.iflag)
    ELSE IF address = 65535 THEN m.ienable
    ELSE x

\* Bus::write as far as the CPU model goes: $FF0F and $FFFF store the byte
bus_write(m, address, value) ==
    IF address = 65295 THEN [m EXCEPT !.iflag = value]
    ELSE IF address = 65535 THEN [m EXCEPT !.ienable = value]
    ELSE m

read_8(m, address) ==
    Bind(Tick(m), LAMBDA t :
        IF t.crash # "" THEN t
        ELSE LET v == bus_read(t, address, Head(t.inp))
             IN [t EXCEPT !.val = v, !.inp = Tail(@),
                          !.log = Append(@, Ev("read", address, v))])

read_16(m, address) ==
    Bind(read_8(m, address), LAMBDA m1 :
    Bind(read_8(Overflow(m1, address = 65535), (address + 1) % 65536), LAMBDA m3 :
        [m3 EXCEPT !.val16 = m3.val * 256 + m1.val]))

write_8(m, address, value) ==
    Bind(Tick(m), LAMBDA t :
        IF t.crash # "" THEN t
        ELSE [bus_write(t, address, value) EXCEPT
                  !.log = Append(t.log, Ev("write", address, value))])

write_16(m, address, value) ==
    Bind(write_8(m, address, Lo(value)), LAMBDA m1 :
        write_8(Overflow(m1, address = 65535), (address + 1) % 65536, Hi(value)))

fetch_8(m) ==
    Bind(read_8(m, m.pc), LAMBDA m1 :
        [Overflow(m1, m1.pc = 65535) EXCEPT !.pc = (@ + 1) % 65536])

fetch_16(m) ==
    Bind(read_16(m, m.pc), LAMBDA m1 :
        [Overflow(m1, m1.pc >= 65534) EXCEPT !.pc = (@ + 2) % 65536])

pop_8(m) ==
    Bind(read_8(m, m.sp), LAMBDA m1 :
        [Overflow(m1, m1.sp = 65535) EXCEPT !.sp = (@ + 1) % 65536])

pop_16(m) ==
    Bind(pop_8(m), LAMBDA m1 :
    Bind(pop_8(m1), LAMBDA m2 :
        [m2 EXCEPT !.val16 = m2.val * 256 + m1.val]))

push_8(m, value) ==
    Bind([Overflow(m, m.sp = 0) EXCEPT !.sp = (@ + 65535) % 65536], LAMBDA m2 :
        write_8(m2, m2.sp, value))

push_16(m, value) == push_8(push_8(m, Hi(value)), Lo(value))

get_af(m) == m.a * 256 + m.f
\* set_af storing the low byte as it is
set_af_unmasked(m, value) == [m EXCEPT !.a = Hi(value), !.f = Lo(value)]
set_af(m, value) == [m EXCEPT !.a = Hi(value), !.f = BitAnd(Lo(value), 240)]
get_bc(m) == m.b * 256 + m.c
set_bc(m, value) == [m EXCEPT !.b = Hi(value), !.c = Lo(value)]
get_de(m) == m.d * 256 + m.e
set_de(m, value) == [m EXCEPT !.d = Hi(value), !.e = Lo(value)]
get_hl(m) == m.h * 256 + m.l
set_hl(m, value) == [m EXCEPT !.h = Hi(value), !.l = Lo(value)]

\* Flags: carry bit 4, half_carry bit 5, subtract bit 6, zero bit 7
carry(m)      == Bit(m.f, 4) = 1
half_carry(m) == Bit(m.f, 5) = 1
subtract(m)   == Bit(m.f, 6) = 1
zero(m)       == Bit(m.f, 7) = 1
set_carry(m, v)      == [m EXCEPT !.f = SetBit(@, 4, v)]
set_half_carry(m, v) == [m EXCEPT !.f = SetBit(@, 5, v)]
set_subtract(m, v)   == [m EXCEPT !.f = SetBit(@, 6, v)]
set_zero(m, v)       == [m EXCEPT !.f = SetBit(@, 7, v)]
set_znhc(m, z, n, hc, cy) ==
    set_carry(set_half_carry(set_subtract(set_zero(m, z), n), hc), cy)

\* Register8: 0 B, 1 C, 2 D, 3 E, 4 H, 5 L, 6 (HL), 7 A; the value is left in val
get_register8(m, register) ==
    CASE register = 0 -> [m EXCEPT !.val = m.b]
      [] register = 1 -> [m EXCEPT !.val = m.c]
      [] register = 2 -> [m EXCEPT !.val = m.d]
      [] register = 3 -> [m EXCEPT !.val = m.e]
      [] register = 4 -> [m EXCEPT !.val = m.h]
      [] register = 5 -> [m EXCEPT !.val = m.l]
      [] register = 6 -> read_8(m, get_hl(m))
      [] register = 7 -> [m EXCEPT !.val = m.a]

set_register8(m, register, value) ==
    CASE register = 0 -> [m EXCEPT !.b = value]
      [] register = 1 -> [m EXCEPT !.c = value]
      [] register = 2 -> [m EXCEPT !.d = value]
      [] register = 3 -> [m EXCEPT !.e = value]
      [] register = 4 -> [m EXCEPT !.h = value]
      [] register = 5 -> [m EXCEPT !.l = value]
      [] register = 6 -> write_8(m, get_hl(m), value)
      [] register = 7 -> [m EXCEPT !.a = value]

\* Register16: 0 BC, 1 DE, 2 HL, 3 SP
get_r16(m, r) ==
    CASE r = 0 -> get_bc(m) [] r = 1 -> get_de(m) [] r = 2 -> get_hl(m) [] r = 3 -> m.sp
set_r16(m, r, value) ==
    CASE r = 0 -> set_bc(m, value) [] r = 1 -> set_de(m, value)
      [] r = 2 -> set_hl(m, value) [] r = 3 -> [m EXCEPT !.sp = value]

\* Condition: 0 NZ, 1 Z, 2 NC, 3 C
should_jump(m, opcode) ==
    LET condition == (opcode \div 8) % 4
    IN CASE condition = 0 -> ~zero(m) [] condition = 1 -> zero(m)
         [] condition = 2 -> ~carry(m) [] condition = 3 -> carry(m)

---------------------------------------------------------------------------
(* The instructions, in the order of cpu.rs.                               *)

nop(m) == m

ld_r16_imm16(m, opcode) ==
    Bind(fetch_16(m), LAMBDA m1 : set_r16(m1, (opcode \div 16) % 4, m1.val16))

\* Register16Mem: 0 BC, 1 DE, 2 HL+, 3 HL-; the address is left in val16
r16mem(m, opcode) ==
    LET r == (opcode \div 16) % 4
    IN CASE r = 0 -> [m EXCEPT !.val16 = get_bc(m)]
         [] r = 1 -> [m EXCEPT !.val16 = get_de(m)]
         [] r = 2 -> [set_hl(m, (get_hl(m) + 1) % 65536) EXCEPT !.val16 = get_hl(m)]
         [] r = 3 -> [set_hl(m, (get_hl(m) + 65535) % 65536) EXCEPT !.val16 = get_hl(m)]

ld_r16mem_a(m, opcode) ==
    Bind(r16mem(m, opcode), LAMBDA m1 : write_8(m1, m1.val16, m1.a))

ld_a_r16mem(m, opcode) ==
    Bind(r16mem(m, opcode), LAMBDA m1 :
    Bind(read_8(m1, m1.val16), LAMBDA m2 :
        [m2 EXCEPT !.a = m2.val]))

ld_ind_imm16_sp(m) ==
    Bind(fetch_16(m), LAMBDA m1 : write_16(m1, m1.val16, m1.sp))

inc_r16(m, opcode) ==
    LET r == (opcode \div 16) % 4
    IN Tick(set_r16(m, r, (get_r16(m, r) + 1) % 65536))

dec_r16(m, opcode) ==
    LET r == (opcode \div 16) % 4
    IN Tick(set_r16(m, r, (get_r16(m, r) + 65535) % 65536))

add_hl_r16(m, opcode) ==
    LET value == get_r16(m, (opcode \div 16) % 4)
        hl == get_hl(m)
        res == (hl + value) % 65536
        cy == hl + value > 65535
        hc == (hl % 4096) + (value % 4096) > 4095
        m1 == set_carry(set_half_carry(set_subtract(m, FALSE), hc), cy)
    IN Tick(set_hl(m1, res))

inc_r8(m, opcode) ==
    LET register == (opcode \div 8) % 8
    IN Bind(get_register8(m, register), LAMBDA m1 :
          LET value == m1.val
              res == (value + 1) % 256
          IN set_half_carry(
                 set_subtract(set_zero(set_register8(m1, register, res), res = 0), FALSE),
                 (value % 16) + 1 > 15))

dec_r8(m, opcode) ==
    LET register == (opcode \div 8) % 8
    IN Bind(get_register8(m, register), LAMBDA m1 :
          LET value == m1.val
              res == (value + 255) % 256
          IN set_half_carry(
                 set_subtract(set_zero(set_register8(m1, register, res), res = 0), TRUE),
                 BitAnd(BitXor(value, res), 16) = 16))

ld_r8_imm8(m, opcode) ==
    Bind(fetch_8(m), LAMBDA m1 : set_register8(m1, (opcode \div 8) % 8, m1.val))

rlca(m) ==
    LET cy == m.a >= 128
    IN set_znhc([m EXCEPT !.a = ((m.a * 2) % 256) + (m.a \div 128)], FALSE, FALSE, FALSE, cy)

rrca(m) ==
    LET cy == m.a % 2 = 1
    IN set_znhc([m EXCEPT !.a = (m.a \div 2) + 128 * (m.a % 2)], FALSE, FALSE, FALSE, cy)

rla(m) ==
    LET cy == m.a >= 128
    IN set_znhc([m EXCEPT !.a = ((m.a * 2) % 256) + Bit(m.f, 4)], FALSE, FALSE, FALSE, cy)

rra(m) ==
    LET cy == m.a % 2 = 1
    IN set_znhc([m EXCEPT !.a = (m.a \div 2) + 128 * Bit(m.f, 4)], FALSE, FALSE, FALSE, cy)

jr_imm8(m) ==
    Bind(fetch_8(m), LAMBDA m1 :
        Tick([m1 EXCEPT !.pc = (m1.pc + SignExtend(m1.val)) % 65536]))

jr_cond_imm8(m, opcode) ==
    LET jump == should_jump(m, opcode)
    IN Bind(fetch_8(m), LAMBDA m1 :
          IF jump THEN Tick([m1 EXCEPT !.pc = (m1.pc + SignExtend(m1.val)) % 65536,
                                       !.taken = TRUE])
          ELSE m1)

stop(m) == [m EXCEPT !.halt = TRUE]

halt(m) == [m EXCEPT !.halt = TRUE]

ld_r8_r8(m, opcode) ==
    LET dest == (opcode \div 8) % 8
        src == opcode % 8
    IN IF dest = 6 /\ src = 6 THEN halt(m)
       ELSE Bind(get_register8(m, src), LAMBDA m1 : set_register8(m1, dest, m1.val))

\* add/adc/sub/sbc/and/xor/or/cp A,value: op is bits 3..5 of the opcode
alu_a(m, op, value) ==
    LET a == m.a
        c == Bit(m.f, 4)
    IN CASE op = 0 ->
              set_znhc([m EXCEPT !.a = (a + value) % 256], (a + value) % 256 = 0, FALSE,
                       (a % 16) + (value % 16) > 15, a + value > 255)
         [] op = 1 ->
              set_znhc([m EXCEPT !.a = (a + value + c) % 256], (a + value + c) % 256 = 0,
                       FALSE, (a % 16) + (value % 16) + c > 15, a + value + c > 255)
         [] op = 2 ->
              set_znhc([m EXCEPT !.a = (a - value) % 256], (a - value) % 256 = 0, TRUE,
                       (a % 16) < (value % 16), a < value)
         [] op = 3 ->
              set_znhc([m EXCEPT !.a = (a - value - c) % 256], (a - value - c) % 256 = 0,
                       TRUE, (a % 16) < (value % 16) + c, a < value + c)
         [] op = 4 ->
              set_znhc([m EXCEPT !.a = BitAnd(a, value)], BitAnd(a, value) = 0,
                       FALSE, TRUE, FALSE)
         [] op = 5 ->
              set_znhc([m EXCEPT !.a = BitXor(a, value)], BitXor(a, value) = 0,
                       FALSE, FALSE, FALSE)
         [] op = 6 ->
              set_znhc([m EXCEPT !.a = BitOr(a, value)], BitOr(a, value) = 0,
                       FALSE, FALSE, FALSE)
         [] op = 7 ->
              set_znhc(m, (a - value) % 256 = 0, TRUE, (a % 16) < (value % 16), a < value)

alu_a_r8(m, opcode) ==
    Bind(get_register8(m, opcode % 8), LAMBDA m1 :
        alu_a(m1, (opcode \div 8) % 8, m1.val))

alu_a_imm8(m, opcode) ==
    Bind(fetch_8(m), LAMBDA m1 : alu_a(m1, (opcode \div 8) % 8, m1.val))

ret_cond(m, opcode) ==
    Bind(Tick(m), LAMBDA m1 :
        IF should_jump(m1, opcode)
        THEN Bind(pop_16(m1), LAMBDA m2 :
                 Tick([m2 EXCEPT !.pc = m2.val16, !.taken = TRUE]))
        ELSE m1)

ret(m) == Bind(pop_16(m), LAMBDA m1 : Tick([m1 EXCEPT !.pc = m1.val16]))

reti(m) == [ret(m) EXCEPT !.ime = TRUE]

jp_cond_imm16(m, opcode) ==
    LET jump == should_jump(m, opcode)
    IN Bind(fetch_16(m), LAMBDA m1 :
          IF jump THEN Tick([m1 EXCEPT !.pc = m1.val16, !.taken = TRUE]) ELSE m1)

jp_imm16(m) == Bind(fetch_16(m), LAMBDA m1 : Tick([m1 EXCEPT !.pc = m1.val16]))

jp_hl(m) == [m EXCEPT !.pc = get_hl(m)]

call_imm16(m) ==
    Bind(fetch_16(m), LAMBDA m1 :
    Bind(push_16(m1, m1.pc), LAMBDA m2 :
        Tick([m2 EXCEPT !.pc = m1.val16])))

call_cond_imm16(m, opcode) ==
    LET jump == should_jump(m, opcode)
    IN Bind(fetch_16(m), LAMBDA m1 :
          IF jump THEN Bind(push_16(m1, m1.pc), LAMBDA m2 :
                           Tick([m2 EXCEPT !.pc = m1.val16, !.taken = TRUE]))
          ELSE m1)

rst_tgt3(m, opcode) ==
    Bind(push_16(m, m.pc), LAMBDA m1 :
        Tick([m1 EXCEPT !.pc = ((opcode \div 8) % 8) * 8]))

\* Register16Stk: 0 BC, 1 DE, 2 HL, 3 AF
pop_r16stk(m, opcode) ==
    LET r == (opcode \div 16) % 4
    IN Bind(pop_16(m), LAMBDA m1 :
          CASE r = 0 -> set_bc(m1, m1.val16) [] r = 1 -> set_de(m1, m1.val16)
            [] r = 2 -> set_hl(m1, m1.val16) [] r = 3 -> set_af(m1, m1.val16))

push_r16stk(m, opcode) ==
    LET r == (opcode \div 16) % 4
        value == CASE r = 0 -> get_bc(m) [] r = 1 -> get_de(m)
                   [] r = 2 -> get_hl(m) [] r = 3 -> get_af(m)
    IN Tick(push_16(m, value))

ldh_ind_c_a(m) == write_8(m, 65280 + m.c, m.a)

ldh_ind_imm8_a(m) == Bind(fetch_8(m), LAMBDA m1 : write_8(m1, 65280 + m1.val, m1.a))

ld_ind_imm16_a(m) == Bind(fetch_16(m), LAMBDA m1 : write_8(m1, m1.val16, m1.a))

ldh_a_ind_c(m) == Bind(read_8(m, 65280 + m.c), LAMBDA m1 : [m1 EXCEPT !.a = m1.val])

ldh_a_ind_imm8(m) ==
    Bind(fetch_8(m), LAMBDA m1 :
    Bind(read_8(m1, 65280 + m1.val), LAMBDA m2 :
        [m2 EXCEPT !.a = m2.val]))

ld_a_ind_imm16(m) ==
    Bind(fetch_16(m), LAMBDA m1 :
    Bind(read_8(m1, m1.val16), LAMBDA m2 :
        [m2 EXCEPT !.a = m2.val]))

add_sp_imm8(m) ==
    Bind(fetch_8(m), LAMBDA m1 :
        LET offset == SignExtend(m1.val)
            sp == m1.sp
        IN [set_znhc(m1, FALSE, FALSE, (sp % 16) + (offset % 16) > 15,
                     (sp % 256) + (offset % 256) > 255)
               EXCEPT !.sp = (sp + offset) % 65536])

ld_hl_sp_plus_imm8(m) ==
    Bind(fetch_8(m), LAMBDA m1 :
        LET offset == SignExtend(m1.val)
            sp == m1.sp
        IN Tick(set_hl(set_znhc(m1, FALSE, FALSE, (sp % 16) + (offset % 16) > 15,
                                (sp % 256) + (offset % 256) > 255),
                       (sp + offset) % 65536)))

ld_sp_hl(m) == Tick([m EXCEPT !.sp = get_hl(m)])

\* rlc/rrc/rl/rr/sla/sra/swap/srl r8: op is bits 3..5 of the CB opcode
shift_r8(m, opcode) ==
    LET op == (opcode \div 8) % 8
        register == opcode % 8
    IN Bind(get_register8(m, register), LAMBDA m1 :
          LET value == m1.val
              c == Bit(m1.f, 4)
              cy == CASE op \in {0, 2, 4} -> value >= 128
                      [] op \in {1, 3, 5, 7} -> value % 2 = 1
                      [] op = 6 -> FALSE
              res == CASE op = 0 -> ((value * 2) % 256) + (value \div 128)
                       [] op = 1 -> (value \div 2) + 128 * (value % 2)
                       [] op = 2 -> ((value * 2) % 256) + c
                       [] op = 3 -> (value \div 2) + 128 * c
                       [] op = 4 -> (value * 2) % 256
                       [] op = 5 -> (value \div 2) + 128 * (value \div 128)
                       [] op = 6 -> ((value * 16) % 256) + (value \div 16)
                       [] op = 7 -> value \div 2
          IN Bind(res, LAMBDA result :
                set_znhc(set_register8(m1, register, result), result = 0,
                         FALSE, FALSE, cy)))

bit_u3_r8(m, opcode) ==
    LET bit == (opcode \div 8) % 8
    IN Bind(get_register8(m, opcode % 8), LAMBDA m1 :
          set_half_carry(set_subtract(set_zero(m1, Bit(m1.val, bit) = 0), FALSE), TRUE))

res_u3_r8(m, opcode) ==
    LET bit == (opcode \div 8) % 8
    IN Bind(get_register8(m, opcode % 8), LAMBDA m1 :
          set_register8(m1, opcode % 8, SetBit(m1.val, bit, FALSE)))

set_u3_r8(m, opcode) ==
    LET bit == (opcode \div 8) % 8
    IN Bind(get_register8(m, opcode % 8), LAMBDA m1 :
          set_register8(m1, opcode % 8, SetBit(m1.val, bit, TRUE)))

prefix_cb(m) ==
    Bind(fetch_8(m), LAMBDA m1 :
        LET opcode == m1.val
        IN Bind([m1 EXCEPT !.cb = opcode], LAMBDA m2 :
              CASE opcode \in 0..63 -> shift_r8(m2, opcode)
                [] opcode \in 64..127 -> bit_u3_r8(m2, opcode)
                [] opcode \in 128..191 -> res_u3_r8(m2, opcode)
                [] opcode \in 192..255 -> set_u3_r8(m2, opcode)))

di(m) == [m EXCEPT !.ime = FALSE]

ei(m) == [m EXCEPT !.ime = TRUE]

daa(m) ==
    LET a == m.a
    IN IF subtract(m)
       THEN LET a1 == IF carry(m) THEN (a + 160) % 256 ELSE a
                a2 == IF half_carry(m) THEN (a1 + 250) % 256 ELSE a1
            IN set_half_carry(set_zero([m EXCEPT !.a = a2], a2 = 0), FALSE)
       ELSE LET adj == carry(m) \/ a > 153
                a1 == IF adj THEN (a + 96) % 256 ELSE a
                m1 == IF adj THEN set_carry(m, TRUE) ELSE m
                a2 == IF half_carry(m) \/ (a1 % 16) > 9 THEN (a1 + 6) % 256 ELSE a1
            IN set_half_carry(set_zero([m1 EXCEPT !.a = a2], a2 = 0), FALSE)

cpl(m) == set_half_carry(set_subtract([m EXCEPT !.a = 255 - m.a], TRUE), TRUE)

scf(m) == set_carry(set_half_carry(set_subtract(m, FALSE), FALSE), TRUE)

ccf(m) == set_carry(set_half_carry(set_subtract(m, FALSE), FALSE), ~carry(m))

\* the opcodes the match of execute_instruction has no arm for
InvalidOpcodes == {211, 219, 221, 227, 228, 235, 236, 237, 244, 252, 253}

\* the match on the opcode in execute_instruction
dispatch(m, opcode) ==
    CASE opcode \in 64..127 -> ld_r8_r8(m, opcode)
      [] opcode \in 128..191 -> alu_a_r8(m, opcode)
      [] opcode \in InvalidOpcodes -> Panic(m, "Invalid opcode")
      [] opcode < 64 /\ opcode % 16 = 1 -> ld_r16_imm16(m, opcode)
      [] opcode < 64 /\ opcode % 16 = 2 -> ld_r16mem_a(m, opcode)
      [] opcode < 64 /\ opcode % 16 = 3 -> inc_r16(m, opcode)
      [] opcode < 64 /\ opcode % 16 = 9 -> add_hl_r16(m, opcode)
      [] opcode < 64 /\ opcode % 16 = 10 -> ld_a_r16mem(m, opcode)
      [] opcode < 64 /\ opcode % 16 = 11 -> dec_r16(m, opcode)
      [] opcode < 64 /\ opcode % 8 = 4 -> inc_r8(m, opcode)
      [] opcode < 64 /\ opcode % 8 = 5 -> dec_r8(m, opcode)
      [] opcode < 64 /\ opcode % 8 = 6 -> ld_r8_imm8(m, opcode)
      [] opcode = 0 -> nop(m)
      [] opcode = 7 -> rlca(m)
      [] opcode = 8 -> ld_ind_imm16_sp(m)
      [] opcode = 15 -> rrca(m)
      [] opcode = 16 -> stop(m)
      [] opcode = 23 -> rla(m)
      [] opcode = 24 -> jr_imm8(m)
      [] opcode = 31 -> rra(m)
      [] opcode \in {32, 40, 48, 56} -> jr_cond_imm8(m, opcode)
      [] opcode = 39 -> daa(m)
      [] opcode = 47 -> cpl(m)
      [] opcode = 55 -> scf(m)
      [] opcode = 63 -> ccf(m)
      [] opcode \in {192, 200, 208, 216} -> ret_cond(m, opcode)
      [] opcode \in {193, 209, 225, 241} -> pop_r16stk(m, opcode)
      [] opcode \in {194, 202, 210, 218} -> jp_cond_imm16(m, opcode)
      [] opcode = 195 -> jp_imm16(m)
      [] opcode \in {196, 204, 212, 220} -> call_cond_imm16(m, opcode)
      [] opcode \in {197, 213, 229, 245} -> push_r16stk(m, opcode)
      [] opcode >= 192 /\ opcode % 8 = 6 -> alu_a_imm8(m, opcode)
      [] opcode >= 192 /\ opcode % 8 = 7 -> rst_tgt3(m, opcode)
      [] opcode = 201 -> ret(m)
      [] opcode = 203 -> prefix_cb(m)
      [] opcode = 205 -> call_imm16(m)
      [] opcode = 217 -> reti(m)
      [] opcode = 224 -> ldh_ind_imm8_a(m)
      [] opcode = 226 -> ldh_ind_c_a(m)
      [] opcode = 232 -> add_sp_imm8(m)
      [] opcode = 233 -> jp_hl(m)
      [] opcode = 234 -> ld_ind_imm16_a(m)
      [] opcode = 240 -> ldh_a_ind_imm8(m)
      [] opcode = 242 -> ldh_a_ind_c(m)
      [] opcode = 243 -> di(m)
      [] opcode = 248 -> ld_hl_sp_plus_imm8(m)
      [] opcode = 249 -> ld_sp_hl(m)
      [] opcode = 250 -> ld_a_ind_imm16(m)
      [] opcode = 251 -> ei(m)

\* history: arbIF is IF as read for arbitration, irq the interrupt taken,
\* ackIF is IF just before the acknowledging write
handle_interrupts(m, pc) ==
    IF ~m.ime THEN m
    ELSE LET interrupt_flag == m.iflag
             interrupt_enable == m.ienable
         IN IF BitAnd(interrupt_flag, interrupt_enable) = 0
            THEN [m EXCEPT !.arbIF = interrupt_flag]
            ELSE Bind(trailing_zeros(BitAnd(interrupt_flag, interrupt_enable)),
                      LAMBDA interrupt :
                 Bind(push_16([m EXCEPT !.arbIF = interrupt_flag, !.ime = FALSE,
                                        !.kind = "interrupt", !.irq = interrupt], pc),
                      LAMBDA m1 :
                 Bind(IF m1.crash # "" THEN m1
                      ELSE [m1 EXCEPT !.ackIF = m1.iflag,
                                      !.iflag = SetBit(interrupt_flag, interrupt, FALSE),
                                      !.pc = 64 + interrupt * 8],
                      LAMBDA m2 :
                     Tick(Tick(Tick(IF interrupt > 4
                                    THEN Panic(m2, "Invalid interrupt") ELSE m2))))))

\* execute_instruction but for the halted branch, where an enabled pending
\* interrupt does not clear halt
execute_instruction_asleep(m) ==
    IF m.halt
    THEN Tick([m EXCEPT !.kind = "halted"])
    ELSE LET pc == m.pc
         IN Bind(fetch_8(m), LAMBDA m1 :
            Bind(handle_interrupts([m1 EXCEPT !.opcode = m1.val], pc), LAMBDA m2 :
                IF m2.kind = "interrupt" \/ m2.crash # "" THEN m2
                ELSE dispatch([m2 EXCEPT !.kind = "instruction"], m1.val)))

execute_instruction(m) ==
    IF m.halt
    THEN Tick([(IF BitAnd(m.iflag, m.ienable) # 0 THEN [m EXCEPT !.halt = FALSE] ELSE m)
                  EXCEPT !.kind = "halted"])
    ELSE LET pc == m.pc
         IN Bind(fetch_8(m), LAMBDA m1 :
            Bind(handle_interrupts([m1 EXCEPT !.opcode = m1.val], pc), LAMBDA m2 :
                IF m2.kind = "interrupt" \/ m2.crash # "" THEN m2
                ELSE dispatch([m2 EXCEPT !.kind = "instruction"], m1.val)))

---------------------------------------------------------------------------
(* The CPU as a state machine.                                             *)

MaxSteps    == 2     \* execute_instruction calls explored by SpecCpu
MaxIrqSteps == 5     \* execute_instruction calls explored by SpecIrq
MaxRaiseAt  == 2     \* a peripheral raises IF during tick 1..MaxRaiseAt of a step

\* Cpu::new and Registers::default
InitCpuRegs ==
    [a |-> 1, b |-> 0, c |-> 19, d |-> 0, e |-> 216, h |-> 1, l |-> 77, f |-> 0,
     pc |-> 256, sp |-> 65534, ime |-> FALSE, halt |-> FALSE]

\* Interrupt::default
InitIntr == [interrupt_flag |-> 0, interrupt_enable |-> 0]

NoLast ==
    [kind |-> "", opcode |-> -1, cb |-> -1, cycles |-> 0, taken |-> FALSE,
     irq |-> -1, arbIF |-> -1, ackIF |-> -1, log |-> <<>>,
     pc0 |-> 0, ime0 |-> FALSE, if0 |-> 0, ie0 |-> 0]

InitCpu ==
    /\ cpu = InitCpuRegs
    /\ intr = InitIntr
    /\ crash = ""
    /\ checks \in BOOLEAN
    /\ last = NoLast
    /\ steps = 0

\* the machine record at the start of a step
Machine(inp, raiseAt, raiseBits) ==
    cpu @@ [iflag |-> intr.interrupt_flag, ienable |-> intr.interrupt_enable,
            crash |-> "", checks |-> checks, inp |-> inp, val |-> 0, val16 |-> 0,
            log |-> <<>>, nticks |-> 0, raiseAt |-> raiseAt, raiseBits |-> raiseBits,
            kind |-> "", opcode |-> -1, cb |-> -1, taken |-> FALSE,
            irq |-> -1, arbIF |-> -1, ackIF |-> -1]

\* one call of Cpu::execute_instruction; the bus returns opcode for the first
\* read and x for every later one
Execute(opcode, x, raiseAt, raiseBits) ==
    \E r \in {execute_instruction(Machine(<<opcode, x, x, x>>, raiseAt, raiseBits))} :
       /\ cpu' = [k \in DOMAIN cpu |-> r[k]]
       /\ intr' = [interrupt_flag |-> r.iflag, interrupt_enable |-> r.ienable]
       /\ crash' = r.crash
       /\ last' = [kind |-> r.kind, opcode |-> r.opcode, cb |-> r.cb,
                   cycles |-> r.nticks, taken |-> r.taken, irq |-> r.irq,
                   arbIF |-> r.arbIF, ackIF |-> r.ackIF, log |-> r.log,
                   pc0 |-> cpu.pc, ime0 |-> cpu.ime,
                   if0 |-> intr.interrupt_flag, ie0 |-> intr.interrupt_enable]
       /\ steps' = steps + 1
       /\ UNCHANGED checks

\* operand bytes of SpecCpu: RLC (HL), BIT 0,(HL) as CB opcodes, and -2
Bytes == {6, 70, 254}

\* SpecCpu: any opcode, no interrupt raised by a peripheral
StepCpu ==
    /\ crash = ""
    /\ steps < MaxSteps
    /\ \E opcode \in 0..255, x \in Bytes : Execute(opcode, x, 0, 0)
    /\ UNCHANGED <<cartVars, ppuVars, timerVars, dmaVars, ioVars>>

\* NOP, LD A,d8, HALT, LDH (a8),A, DI, EI
IrqOpcodes == {0, 62, 118, 224, 243, 251}
\* the offsets of IF and IE in the high page, for LDH (a8),A
IrqBytes == {15, 255}
\* a value for A with bits 5-7 set and one with two of the low five bits
IrqValues == {224, 5}
\* the bytes that may follow an opcode of IrqOpcodes: LD A,d8 and LDH (a8),A
\* read one, the others none
Operands(opcode) ==
    IF opcode = 62 THEN IrqValues ELSE IF opcode = 224 THEN IrqBytes ELSE {0}
\* the Timer bit of IF
RaiseBits == {4}

\* SpecIrq: the interrupt-related opcodes, with the timer raising its
\* interrupt during one tick of the step, or not at all
StepIrq ==
    /\ crash = ""
    /\ steps < MaxIrqSteps
    /\ \E opcode \in IrqOpcodes : \E x \in Operands(opcode) :
          \/ Execute(opcode, x, 0, 0)
          \/ \E t \in 1..MaxRaiseAt, bits \in RaiseBits : Execute(opcode, x, t, bits)
    /\ UNCHANGED <<cartVars, ppuVars, timerVars, dmaVars, ioVars>>

---------------------------------------------------------------------------
(* Properties of the CPU step.                                             *)

\* the bytes written by the last step, in order
Written == [k \in 1..Len(SelectSeq(last.log, LAMBDA ev : ev.op = "write")) |->
               SelectSeq(last.log, LAMBDA ev : ev.op = "write")[k].val]

\* C1: a step that starts not halted, with IME set and an interrupt of the
\* low five bits both enabled and pending, dispatches the lowest-numbered
\* one, i: IF bit i is clear afterwards and every other IF bit that was set
\* when the CPU acknowledged is still set, IME is clear, the bytes pushed are
\* the PC from before the opcode fetch, PC = $0040 + 8*i, and the fetched
\* opcode is not executed.
C1_Dispatch ==
    (/\ steps > 0
     /\ last.kind # "halted"
     /\ last.ime0
     /\ BitAnd(BitAnd(last.ie0, last.if0), 31) # 0)
    => LET i == trailing_zeros(BitAnd(BitAnd(last.ie0, last.if0), 31))
       IN /\ crash = ""
          /\ last.kind = "interrupt"
          /\ last.irq = i
          /\ Bit(intr.interrupt_flag, i) = 0
          /\ \A k \in (0..7) \ {i} :
                Bit(last.ackIF, k) = 1 => Bit(intr.interrupt_flag, k) = 1
          /\ ~cpu.ime
          /\ Written = <<Hi(last.pc0), Lo(last.pc0)>>
          /\ cpu.pc = 64 + 8 * i

\* C2: only the low five bits of IE and IF take part in arbitration: a step
\* that arbitrates with IME set and (IE AND IF) AND $1F zero dispatches no
\* interrupt, executes the fetched instruction and does not fail, whatever
\* bits 5-7 of IE and IF are.
C2_LowFiveBits ==
    (/\ steps > 0
     /\ last.ime0
     /\ last.arbIF >= 0
     /\ BitAnd(BitAnd(last.ie0, last.arbIF), 31) = 0)
    => /\ crash = ""
       /\ last.kind = "instruction"
       /\ last.irq = -1

\* C3: whatever opcode is fetched, the step completes; no opcode value makes
\* it fail (here: even in a build without overflow checks).
C3_EveryOpcodeDefined ==
    (steps > 0 /\ ~checks) => crash = ""

\* C5: every executed instruction takes its tabulated number of machine
\* cycles, one bus tick each.
C5_CycleTable ==
    LET op == last.opcode
        cb == last.cb
        low == op < 64
        cc(t, n) == IF last.taken THEN t ELSE n
        rows == {<<op = 0, 1>>,
                 <<low /\ op % 8 = 6 /\ op # 54, 2>>,
                 <<low /\ op % 16 \in {3, 11}, 2>>,
                 <<low /\ op % 16 = 9, 2>>,
                 <<op = 24, 3>>,
                 <<op \in {32, 40, 48, 56}, cc(3, 2)>>,
                 <<op = 195, 4>>,
                 <<op \in {194, 202, 210, 218}, cc(4, 3)>>,
                 <<op = 205, 6>>,
                 <<op \in {196, 204, 212, 220}, cc(6, 3)>>,
                 <<op = 201, 4>>,
                 <<op \in {192, 200, 208, 216}, cc(5, 2)>>,
                 <<op >= 192 /\ op % 8 = 7, 4>>,
                 <<op \in {197, 213, 229, 245}, 4>>,
                 <<op \in {193, 209, 225, 241}, 3>>,
                 <<op = 8, 5>>,
                 <<op = 232, 4>>,
                 <<op = 248, 3>>,
                 <<op = 249, 2>>,
                 <<op = 203 /\ cb % 8 # 6, 2>>,
                 <<op = 203 /\ cb % 8 = 6 /\ cb \notin 64..127, 4>>,
                 <<op = 203 /\ cb % 8 = 6 /\ cb \in 64..127, 3>>}
    IN (steps > 0 /\ crash = "" /\ last.kind = "instruction")
       => \A row \in rows : row[1] => last.cycles = row[2]

\* C6: a step that dispatches an interrupt takes exactly 5 machine cycles.
C6_DispatchCycles ==
    (steps > 0 /\ crash = "" /\ last.kind = "interrupt") => last.cycles = 5

---------------------------------------------------------------------------
(* The cartridge controllers (src/src/cartridge).  A cartridge is a record *)
(*   mbc                       "RomOnly", "Mbc1", "Mbc2", "Mbc3", "Mbc5"    *)
(*   rom_size ram_size         the sizes the header declares, in bytes;    *)
(*                             the image holds rom_size bytes              *)
(*   ram                       the bytes written to external RAM, by index *)
(*                             (every other cell holds 0)                  *)
(*   ram_enable rom_bank ram_bank banking_mode       the registers         *)
(*   rtc_select prev_latch_data                      MBC3 only             *)
(* An access returns [fail, val] or [fail, cart]; fail is "" or the panic. *)

\* the byte of the ROM image at index: each bank is filled with a pattern
\* that starts at the bank number
RomByte(index) == ((index \div 16384) + index) % 256

\* self.rom.data()[index]
rom_data(c, index) ==
    IF index < c.rom_size THEN [fail |-> "", val |-> RomByte(index)]
    ELSE [fail |-> "index out of bounds", val |-> 0]

\* the length of the vector self.ram: vec![0; 512] in Mbc2::new,
\* vec![0; rom.ram_size()] in the others
ram_len(c) == IF c.mbc = "Mbc2" THEN 512 ELSE c.ram_size

\* self.ram[index]
ram_get(c, index) ==
    IF index < ram_len(c)
    THEN [fail |-> "", val |-> IF index \in DOMAIN c.ram THEN c.ram[index] ELSE 0]
    ELSE [fail |-> "index out of bounds", val |-> 0]

\* self.ram[index] = value
ram_set(c, index, value) ==
    IF index < ram_len(c)
    THEN [fail |-> "",
          cart |-> [c EXCEPT !.ram = [k \in DOMAIN c.ram \cup {index} |->
                                         IF k = index THEN value ELSE c.ram[k]]]]
    ELSE [fail |-> "index out of bounds", cart |-> c]

\* (size / bank size).saturating_sub(1)
bank_mask(size, bank) == IF size \div bank = 0 THEN 0 ELSE (size \div bank) - 1

Done(c) == [fail |-> "", cart |-> c]
Unreachable(c) == [fail |-> "unreachable", cart |-> c]

rom_only_read(c, address) == rom_data(c, address)

rom_only_write(c, address, value) == Done(c)

mbc1_ram_index(c, address) ==
    LET ram_bank == IF c.banking_mode
                    THEN BitAnd(c.ram_bank, bank_mask(c.ram_size, 8192)) ELSE 0
    IN ram_bank * 8192 + (address % 8192)

\* Mbc1::read with the fixed region always in bank 0
mbc1_read_bank0(c, address) ==
    LET rom_bank_mask == bank_mask(c.rom_size, 16384) % 256
    IN CASE address \in 0..16383 -> rom_data(c, address)
         [] address \in 16384..32767 ->
              LET rom_bank == BitAnd(BitOr(c.ram_bank * 32, c.rom_bank), rom_bank_mask)
              IN rom_data(c, rom_bank * 16384 + (address % 16384))
         [] address \in 40960..49151 ->
              IF c.ram_enable THEN ram_get(c, mbc1_ram_index(c, address))
              ELSE [fail |-> "", val |-> 255]
         [] OTHER -> [fail |-> "unreachable", val |-> 0]

mbc1_read(c, address) ==
    LET rom_bank_mask == bank_mask(c.rom_size, 16384) % 256
    IN CASE address \in 0..16383 ->
              LET rom_bank == IF c.banking_mode
                              THEN BitAnd(c.ram_bank * 32, rom_bank_mask) ELSE 0
              IN rom_data(c, rom_bank * 16384 + address)
         [] address \in 16384..32767 ->
              LET rom_bank == BitAnd(BitOr(c.ram_bank * 32, c.rom_bank), rom_bank_mask)
              IN rom_data(c, rom_bank * 16384 + (address % 16384))
         [] address \in 40960..49151 ->
              IF c.ram_enable THEN ram_get(c, mbc1_ram_index(c, address))
              ELSE [fail |-> "", val |-> 255]
         [] OTHER -> [fail |-> "unreachable", val |-> 0]

mbc1_write(c, address, value) ==
    CASE address \in 0..8191 -> Done([c EXCEPT !.ram_enable = (value % 16 = 10)])
      [] address \in 8192..16383 ->
           Done([c EXCEPT !.rom_bank = IF value % 32 = 0 THEN 1 ELSE value % 32])
      [] address \in 16384..24575 -> Done([c EXCEPT !.ram_bank = value % 4])
      [] address \in 24576..32767 -> Done([c EXCEPT !.banking_mode = (value % 2 = 1)])
      [] address \in 40960..49151 ->
           IF c.ram_enable THEN ram_set(c, mbc1_ram_index(c, address), value)
           ELSE Done(c)
      [] OTHER -> Unreachable(c)

\* the ROM windows of Mbc2, Mbc3 and Mbc5::read, which are the same code
banked_rom_read(c, address) ==
    IF address < 16384 THEN rom_data(c, address)
    ELSE LET width == IF c.mbc = "Mbc5" THEN 65536 ELSE 256
             bank == BitAnd(c.rom_bank, bank_mask(c.rom_size, 16384) % width) * 16384
         IN rom_data(c, bank + (address - 16384))

mbc2_read(c, address) ==
    CASE address \in 0..32767 -> banked_rom_read(c, address)
      [] address \in 40960..41471 ->
           IF c.ram_enable
           THEN LET addr == (address % 512) \div 2
                    data == ram_get(c, addr)
                IN [data EXCEPT !.val = IF addr % 2 = 0 THEN @ % 16 ELSE @ \div 16]
           ELSE [fail |-> "", val |-> 255]
      [] OTHER -> [fail |-> "unreachable", val |-> 0]

mbc2_write(c, address, value) ==
    CASE address \in 0..16383 ->
           IF BitAnd(address, 256) = 0
           THEN Done([c EXCEPT !.ram_enable = (value % 16 = 10)])
           ELSE Done([c EXCEPT !.rom_bank = IF value % 16 = 0 THEN 1 ELSE value % 16])
      [] address \in 40960..49151 ->
           IF c.ram_enable
           THEN LET addr == (address % 512) \div 2
                    data == ram_get(c, addr).val
                IN IF addr % 2 = 0
                   THEN ram_set(c, addr, (data - (data % 16)) + (value % 16))
                   ELSE ram_set(c, addr, (data % 16) + ((value * 16) % 256))
           ELSE Done(c)
      [] OTHER -> Unreachable(c)

\* the RAM index of Mbc3 and Mbc5: the selected bank under the mask
banked_ram_index(c, address) ==
    BitAnd(c.ram_bank, bank_mask(c.ram_size, 8192) % 256) * 8192 + (address - 40960)

\* rtc is what the latched clock gives for the seconds, minutes, hours and
\* day registers; the day-high register reads 0
mbc3_read(c, address, rtc) ==
    CASE address \in 0..32767 -> banked_rom_read(c, address)
      [] address \in 40960..49151 ->
           IF c.ram_enable
           THEN IF c.rtc_select = 0 THEN ram_get(c, banked_ram_index(c, address))
                ELSE [fail |-> "", val |-> IF c.rtc_select \in 8..11 THEN rtc ELSE 0]
           ELSE [fail |-> "", val |-> 255]
      [] OTHER -> [fail |-> "unreachable", val |-> 0]

\* rtc_select is 0 for RegisterSelect::RamBank (the bank is in ram_bank),
\* else the register of RegisterSelect::Rtc
mbc3_write(c, address, value) ==
    CASE address \in 0..8191 -> Done([c EXCEPT !.ram_enable = (value % 16 = 10)])
      [] address \in 8192..16383 ->
           Done([c EXCEPT !.rom_bank = IF value % 128 = 0 THEN 1 ELSE value % 128])
      [] address \in 16384..24575 ->
           Done(CASE value \in 0..3 -> [c EXCEPT !.ram_bank = value, !.rtc_select = 0]
                  [] value \in 8..12 -> [c EXCEPT !.rtc_select = value]
                  [] OTHER -> c)
      [] address \in 24576..32767 -> Done([c EXCEPT !.prev_latch_data = value])
      [] address \in 40960..49151 ->
           IF c.ram_enable /\ c.rtc_select = 0
           THEN ram_set(c, banked_ram_index(c, address), value)
           ELSE Done(c)
      [] OTHER -> Unreachable(c)

mbc5_read(c, address) ==
    CASE address \in 0..32767 -> banked_rom_read(c, address)
      [] address \in 40960..49151 ->
           IF c.ram_enable THEN ram_get(c, banked_ram_index(c, address))
           ELSE [fail |-> "", val |-> 255]
      [] OTHER -> [fail |-> "unreachable", val |-> 0]

mbc5_write(c, address, value) ==
    CASE address \in 0..8191 -> Done([c EXCEPT !.ram_enable = (value % 16 = 10)])
      [] address \in 8192..12287 ->
           Done([c EXCEPT !.rom_bank = BitAnd(c.rom_bank, 256) + value])
      [] address \in 12288..16383 ->
           Done([c EXCEPT !.rom_bank = (c.rom_bank % 256) + 256 * (value % 2)])
      [] address \in 16384..24575 -> Done([c EXCEPT !.ram_bank = value % 16])
      [] address \in 40960..49151 ->
           IF c.ram_enable THEN ram_set(c, banked_ram_index(c, address), value)
           ELSE Done(c)
      [] OTHER -> Unreachable(c)

\* Cartridge::read
cartridge_read(c, address, rtc) ==
    CASE c.mbc = "RomOnly" -> rom_only_read(c, address)
      [] c.mbc = "Mbc1" -> mbc1_read(c, address)
      [] c.mbc = "Mbc2" -> mbc2_read(c, address)
      [] c.mbc = "Mbc3" -> mbc3_read(c, address, rtc)
      [] c.mbc = "Mbc5" -> mbc5_read(c, address)

\* Cartridge::write
cartridge_write(c, address, value) ==
    CASE c.mbc = "RomOnly" -> rom_only_write(c, address, value)
      [] c.mbc = "Mbc1" -> mbc1_write(c, address, value)
      [] c.mbc = "Mbc2" -> mbc2_write(c, address, value)
      [] c.mbc = "Mbc3" -> mbc3_write(c, address, value)
      [] c.mbc = "Mbc5" -> mbc5_write(c, address, value)

MaxCartOps == 3      \* bus accesses to the cartridge explored by SpecCart

MbcTypes == {"RomOnly", "Mbc1", "Mbc2", "Mbc3", "Mbc5"}
\* header byte $0148 = 0, 1: 32 KiB and 64 KiB
RomSizes == {32768, 65536}
\* header byte $0149 = 0, 1, 2, 3: none, 2 KiB, 8 KiB, 32 KiB
RamSizes == {0, 2048, 8192, 32768}

\* CartridgeType::new: the controller and the capabilities of a type code of
\* header byte $0147, for the controllers Cartridge::new builds
CartridgeType(code) ==
    LET T(mbc, ram, battery) ==
           [code |-> code, mbc |-> mbc, has_ram |-> ram, has_battery |-> battery]
    IN CASE code = 0 -> T("RomOnly", FALSE, FALSE)
         [] code = 1 -> T("Mbc1", FALSE, FALSE)
         [] code = 2 -> T("Mbc1", TRUE, FALSE)
         [] code = 3 -> T("Mbc1", TRUE, TRUE)
         [] code = 5 -> T("Mbc2", FALSE, FALSE)
         [] code = 6 -> T("Mbc2", FALSE, TRUE)
         [] code = 8 -> T("RomOnly", TRUE, FALSE)
         [] code = 9 -> T("RomOnly", TRUE, TRUE)
         [] code = 15 -> T("Mbc3", FALSE, TRUE)
         [] code = 16 -> T("Mbc3", TRUE, TRUE)
         [] code = 17 -> T("Mbc3", FALSE, FALSE)
         [] code = 18 -> T("Mbc3", TRUE, FALSE)
         [] code = 19 -> T("Mbc3", TRUE, TRUE)
         [] code = 25 -> T("Mbc5", FALSE, FALSE)
         [] code = 26 -> T("Mbc5", TRUE, FALSE)
         [] code = 27 -> T("Mbc5", TRUE, TRUE)
         [] code = 28 -> T("Mbc5", FALSE, FALSE)
         [] code = 29 -> T("Mbc5", TRUE, FALSE)
         [] code = 30 -> T("Mbc5", TRUE, TRUE)

TypeCodes == {0, 1, 2, 3, 5, 6, 8, 9, 15, 16, 17, 18, 19, 25, 26, 27, 28, 29, 30}

\* the type code without RAM and battery of a controller
PlainType(mbc) ==
    CartridgeType(CASE mbc = "RomOnly" -> 0 [] mbc = "Mbc1" -> 1 [] mbc = "Mbc2" -> 5
                    [] mbc = "Mbc3" -> 17 [] mbc = "Mbc5" -> 25)

\* Cartridge::new without a backup: the registers as the constructors set them
NewCartridge(mbc, rom_size, ram_size) ==
    [mbc |-> mbc, rom_size |-> rom_size, ram_size |-> ram_size, ram |-> <<>>,
     ram_enable |-> FALSE, rom_bank |-> 1,
     ram_bank |-> IF mbc = "Mbc1" THEN 1 ELSE 0,
     banking_mode |-> FALSE, rtc_select |-> 0, prev_latch_data |-> 0]

NoAccess == [op |-> "", addr |-> 0, value |-> 0, fail |-> "", val |-> 0, n |-> 0]

InitCart ==
    /\ cart \in {NewCartridge(mbc, ro, ra) : mbc \in MbcTypes, ro \in RomSizes,
                                             ra \in RamSizes}
    /\ cartOut = NoAccess
    /\ cartridge_type = PlainType(cart.mbc)

\* the addresses the bus passes to the cartridge: $0000-7FFF and $A000-BFFF
\* (bus.rs 68-70, 168-170); one or two from each register window
CartAddrs == {0, 8448, 12288, 16384, 24576, 32767, 40960, 41471, 41472, 49151}
CartValues == {0, 1, 10, 3}
\* seconds of the latched clock
RtcValues == {0, 59}

\* Bus::read of a cartridge address
CartRead ==
    /\ cartOut.fail = ""
    /\ cartOut.n < MaxCartOps
    /\ \E address \in CartAddrs, rtc \in RtcValues :
          LET r == cartridge_read(cart, address, rtc)
          IN cartOut' = [op |-> "read", addr |-> address, value |-> 0,
                         fail |-> r.fail, val |-> r.val, n |-> cartOut.n + 1]
    /\ UNCHANGED <<cart, cpuVars, ppuVars, timerVars, dmaVars, ioVars>>

\* Bus::write of a cartridge address
CartWrite ==
    /\ cartOut.fail = ""
    /\ cartOut.n < MaxCartOps
    /\ \E address \in CartAddrs, value \in CartValues :
          LET r == cartridge_write(cart, address, value)
          IN /\ cart' = r.cart
             /\ cartOut' = [op |-> "write", addr |-> address, value |-> value,
                            fail |-> r.fail, val |-> 0, n |-> cartOut.n + 1]
    /\ UNCHANGED <<cpuVars, ppuVars, timerVars, dmaVars, ioVars>>

\* C4: on every cartridge variant, in every state of its registers, a read
\* of an address in $0000-7FFF or $A000-BFFF returns a byte and a write to
\* one completes; neither fails, also when the header declares no RAM.
C4_CartridgeTotal == cartOut.fail = ""

---------------------------------------------------------------------------
(* The PPU dot counter (src/src/ppu.rs).  The operators work on a record p *)
(* with the Ppu fields lx ly mode lcdc stat lyc prev_interrupt frame, the  *)
(* interrupt flag iflag, and the history of the current frame:             *)
(*   dots      tick_pixel calls since the frame counter last changed       *)
(*   vbl       times the PPU set the VBlank bit of IF since then           *)
(*   vblDot    the value of dots when it last did                          *)
(*   clean     the LCD was on and LCDC was not written since then          *)
(*   lastClean lastLen lastVbl   clean, dots and vbl of the frame before,  *)
(*             the last two kept only for a clean frame                    *)
(*   cleanRun  the number of clean frames in a row that have ended         *)
(*   renders   render_scanline calls since the line began: since LX last   *)
(*             became 0                                                    *)
(*   lineOn    the LCD was enabled at every dot since the line began       *)
(*   afterDot  a dot has passed since the LCD was last turned on           *)
(* The frame buffer is not modelled: render_scanline only counts.          *)

MaxFrames == 3       \* values of the frame counter explored by SpecPpu

lcd_enable(p) == Bit(p.lcdc, 7) = 1

\* history: the frame counter changes
NewFrame(p, enabled) ==
    [p EXCEPT !.frame = @ + 1, !.dots = 0, !.vbl = 0, !.vblDot = 0, !.clean = enabled,
              !.lastClean = p.clean,
              !.cleanRun = IF p.clean THEN @ + 1 ELSE 0,
              !.lastLen = IF p.clean THEN p.dots ELSE 0,
              !.lastVbl = IF p.clean THEN p.vbl ELSE 0]

\* a line of 455 dots
update_lx_ly_short(p) ==
    LET p1 == [p EXCEPT !.lx = @ + 1, !.dots = @ + 1]
    IN IF p1.lx = 455
       THEN LET p2 == [p1 EXCEPT !.lx = 0, !.ly = @ + 1, !.renders = 0,
                                 !.lineOn = TRUE]
            IN IF p2.ly = 154 THEN NewFrame([p2 EXCEPT !.ly = 0], lcd_enable(p2))
               ELSE p2
       ELSE p1

update_lx_ly(p) ==
    LET p1 == [p EXCEPT !.lx = @ + 1, !.dots = @ + 1]
    IN IF p1.lx = 456
       THEN LET p2 == [p1 EXCEPT !.lx = 0, !.ly = @ + 1, !.renders = 0,
                                 !.lineOn = TRUE]
            IN IF p2.ly = 154 THEN NewFrame([p2 EXCEPT !.ly = 0], lcd_enable(p2))
               ELSE p2
       ELSE p1

\* set_mode rendering at every dot of Data-transfer
set_mode_every_dot(p, mode) ==
    LET p1 == IF p.mode # mode /\ mode = "VBlank"
              THEN [p EXCEPT !.iflag = SetBit(@, 0, TRUE), !.vbl = @ + 1,
                             !.vblDot = p.dots]
              ELSE IF mode = "DataTransfer" THEN [p EXCEPT !.renders = @ + 1]
              ELSE p
    IN [p1 EXCEPT !.mode = mode]

\* Ppu::render_scanline, counted
render_scanline(p) == [p EXCEPT !.renders = @ + 1]

set_mode(p, mode) ==
    LET p1 == IF p.mode # mode /\ mode = "VBlank"
              THEN [p EXCEPT !.iflag = SetBit(@, 0, TRUE), !.vbl = @ + 1,
                             !.vblDot = p.dots]
              ELSE IF p.mode # mode /\ mode = "DataTransfer" THEN render_scanline(p)
              ELSE p
    IN [p1 EXCEPT !.mode = mode]

update_mode(p) ==
    IF p.ly \in 0..143
    THEN IF p.lx < 80 THEN set_mode(p, "OamSearch")
         ELSE IF p.lx < 252 THEN set_mode(p, "DataTransfer")
         ELSE set_mode(p, "HBlank")
    ELSE set_mode(p, "VBlank")

update_interrupt(p) ==
    LET cur_interrupt ==
            \/ CASE p.mode = "HBlank" -> Bit(p.stat, 3) = 1
                 [] p.mode = "VBlank" -> Bit(p.stat, 4) = 1
                 [] p.mode = "OamSearch" -> Bit(p.stat, 5) = 1
                 [] p.mode = "DataTransfer" -> FALSE
            \/ (Bit(p.stat, 6) = 1 /\ p.ly = p.lyc)
        p1 == IF ~p.prev_interrupt /\ cur_interrupt
              THEN [p EXCEPT !.iflag = SetBit(@, 1, TRUE)] ELSE p
    IN [p1 EXCEPT !.prev_interrupt = cur_interrupt]

\* tick_pixel with the dot counters standing still while the LCD is disabled
tick_pixel_lcd_first(p) ==
    IF ~lcd_enable(p)
    THEN [p EXCEPT !.mode = "HBlank", !.lineOn = FALSE, !.afterDot = TRUE]
    ELSE update_interrupt(update_mode([update_lx_ly(p) EXCEPT !.afterDot = TRUE]))

tick_pixel(p) ==
    LET p1 == [update_lx_ly(p) EXCEPT !.afterDot = TRUE]
    IN IF ~lcd_enable(p1) THEN [p1 EXCEPT !.mode = "HBlank", !.lineOn = FALSE]
       ELSE update_interrupt(update_mode(p1))

\* Ppu::tick: Config::current_speed is Speed::Normal in every state, since
\* Config::set_speed_switch keeps bit 0 only (config.rs 22-34)
ppu_tick(p) == tick_pixel(tick_pixel(tick_pixel(tick_pixel(p))))

\* Ppu::write of $FF40
ppu_write_lcdc(p, value) ==
    IF ~lcd_enable(p) /\ Bit(value, 7) = 1
    THEN NewFrame([p EXCEPT !.lx = 0, !.ly = 0, !.lcdc = value, !.clean = FALSE,
                            !.renders = 0, !.lineOn = TRUE, !.afterDot = FALSE], TRUE)
    ELSE [p EXCEPT !.lcdc = value, !.clean = FALSE]

\* Ppu::new
InitPpuRegs ==
    [lx |-> 0, ly |-> 0, mode |-> "OamSearch", lcdc |-> 0, stat |-> 0, lyc |-> 0,
     prev_interrupt |-> FALSE, frame |-> 0]

InitPpuHist ==
    [dots |-> 0, vbl |-> 0, vblDot |-> 0, clean |-> FALSE,
     lastClean |-> FALSE, lastLen |-> 0, lastVbl |-> 0, cleanRun |-> 0,
     renders |-> 0, lineOn |-> FALSE, afterDot |-> FALSE]

InitPpu ==
    /\ ppu = InitPpuRegs
    /\ ppuHist = InitPpuHist

\* the result p of a PPU operation becomes the state
PpuBecomes(p) ==
    /\ ppu' = [k \in DOMAIN ppu |-> p[k]]
    /\ ppuHist' = [k \in DOMAIN ppuHist |-> p[k]]
    /\ intr' = [intr EXCEPT !.interrupt_flag = p.iflag]
    /\ UNCHANGED <<cpu, crash, checks, last, steps, cartVars, timerVars, dmaVars, ioVars>>

\* Inner1::ppu_tick: one machine cycle of the PPU
PpuTick ==
    /\ ppu.frame < MaxFrames
    /\ \E p \in {ppu_tick(ppu @@ ppuHist @@ [iflag |-> intr.interrupt_flag])} :
          PpuBecomes(p)

\* LCD off, LCD on
LcdcValues == {0, 128}

\* a CPU write to $FF40
PpuWriteLcdc ==
    /\ ppu.frame < MaxFrames
    /\ \E value \in LcdcValues :
          \E p \in {ppu_write_lcdc(ppu @@ ppuHist @@ [iflag |-> intr.interrupt_flag],
                                   value)} :
             PpuBecomes(p)

\* C7: in a frame during which the LCD stayed on and LCDC was not written,
\* LY is the number of lines of 456 dots elapsed, so it takes 0..153 in
\* ascending order, once each; the PPU sets the VBlank bit of IF once, with
\* the dot at which LY becomes 144; and the frame lasts 70224 dots.
C7_FrameTiming ==
    /\ ppuHist.clean =>
          /\ ppu.ly = ppuHist.dots \div 456
          /\ ppu.lx = ppuHist.dots % 456
          /\ ppuHist.vbl = (IF ppuHist.dots >= 144 * 456 THEN 1 ELSE 0)
          /\ ppuHist.vbl = 1 => ppuHist.vblDot = 144 * 456
    /\ ppuHist.lastClean => (ppuHist.lastLen = 70224 /\ ppuHist.lastVbl = 1)

\* C7 witness: two frames in a row have ended with the LCD on throughout and
\* LCDC unwritten, the first begun by switching the LCD on, the second by
\* the wrap of LY
C7_Witness ==
    /\ ppuHist.cleanRun = 2
    /\ ppuHist.lastLen = 70224
    /\ ppuHist.lastVbl = 1

---------------------------------------------------------------------------
(* The timer (src/src/timer.rs).  The operators work on a record t with    *)
(* the Timer fields, the interrupt flag iflag, and incFrom: the value TIMA *)
(* was incremented from in this tick, -1 when it was not incremented.      *)

MaxTimerTicks  == 66     \* machine cycles explored by SpecTimer
MaxTimerWrites == 2      \* CPU writes to the timer registers among them

timer_read(t, address) ==
    CASE address = 65284 -> (t.div \div 256) % 256
      [] address = 65285 -> t.tima
      [] address = 65286 -> t.tma
      [] address = 65287 -> BitOr((IF t.tima_enable THEN 4 ELSE 0), t.tac)

timer_write(t, address, value) ==
    CASE address = 65284 -> [t EXCEPT !.div = 0]
      [] address = 65285 -> [t EXCEPT !.tima = value]
      [] address = 65286 -> [t EXCEPT !.tma = value]
      [] address = 65287 -> [t EXCEPT !.tac = value % 4,
                                      !.tima_enable = (Bit(value, 2) = 1)]

tick_div(t) ==
    LET t1 == [t EXCEPT !.div_counter = @ + 1]
    IN IF t1.div_counter = 64
       THEN [t1 EXCEPT !.div_counter = 0, !.div = (@ + 1) % 65536]
       ELSE t1

\* the match on TAC in tick_tima, in machine cycles; Config::current_speed
\* is Speed::Normal in every state, so the threshold is never halved
tac_threshold(tac) ==
    CASE tac % 4 = 0 -> 256 [] tac % 4 = 1 -> 4 [] tac % 4 = 2 -> 16 [] tac % 4 = 3 -> 64

tick_tima(t) ==
    IF ~t.tima_enable THEN t
    ELSE LET t1 == [t EXCEPT !.tima_counter = (@ + 1) % 65536]
         IN IF t1.tima_counter = tac_threshold(t1.tac)
            THEN LET t2 == [t1 EXCEPT !.tima_counter = 0, !.incFrom = t1.tima,
                                      !.tima = (@ + 1) % 256]
                 IN IF t1.tima = 255
                    THEN [t2 EXCEPT !.tima = t2.tma, !.iflag = SetBit(@, 2, TRUE)]
                    ELSE t2
            ELSE t1

timer_tick(t) == tick_tima(tick_div(t))

\* Timer::new
InitTimerRegs ==
    [div |-> 0, tima |-> 0, tma |-> 0, tac |-> 0, div_counter |-> 0,
     tima_counter |-> 0, tima_enable |-> FALSE]

\* history of the timer:
\*   ticks writes   machine cycles and register writes so far
\*   sinceDiv       machine cycles since reset or the last write to $FF04
\*   quiet          machine cycles since TIMA was last incremented or TAC
\*                  last written (or reset); fromInc tells which
\*   gap            at an increment that follows another one with TAC not
\*                  written in between, the machine cycles between them
\*   op incFrom ifBefore before   the last operation, the TIMA value it
\*                  incremented from, and IF and the registers before it
InitTimerHist ==
    [ticks |-> 0, writes |-> 0, sinceDiv |-> 0, quiet |-> 0, fromInc |-> FALSE,
     gap |-> 0, op |-> "", incFrom |-> -1, ifBefore |-> 0, before |-> InitTimerRegs]

InitTimer ==
    /\ timer = InitTimerRegs
    /\ timerHist = InitTimerHist

\* Inner1::timer_tick: one machine cycle of the timer
TimerTick ==
    /\ timerHist.ticks < MaxTimerTicks
    /\ \E t \in {timer_tick(timer @@ [iflag |-> intr.interrupt_flag, incFrom |-> -1])} :
          /\ timer' = [k \in DOMAIN timer |-> t[k]]
          /\ intr' = [intr EXCEPT !.interrupt_flag = t.iflag]
          /\ timerHist' =
                [timerHist EXCEPT
                    !.ticks = @ + 1,
                    !.sinceDiv = @ + 1,
                    !.quiet = IF t.incFrom >= 0 THEN 0 ELSE @ + 1,
                    !.fromInc = IF t.incFrom >= 0 THEN TRUE ELSE @,
                    !.gap = IF t.incFrom >= 0 /\ timerHist.fromInc
                            THEN timerHist.quiet + 1 ELSE 0,
                    !.op = "tick",
                    !.incFrom = t.incFrom,
                    !.ifBefore = intr.interrupt_flag,
                    !.before = timer]
    /\ UNCHANGED <<cpu, crash, checks, last, steps, cartVars, ppuVars, dmaVars, ioVars>>

\* DIV, TIMA, TMA, TAC
TimerAddrs == {65284, 65285, 65286, 65287}
\* the bytes written: TAC = 4 and 5 enable the timer with clock select 0 and
\* 1, TIMA = 255 is one increment from overflow, 1 disables through TAC
TimerValues(address) ==
    CASE address = 65284 -> {0}
      [] address = 65285 -> {255}
      [] address = 65286 -> {7}
      [] address = 65287 -> {1, 4, 5}

\* a CPU write to $FF04-$FF07
TimerWrite ==
    /\ timerHist.writes < MaxTimerWrites
    /\ \E address \in TimerAddrs : \E value \in TimerValues(address) :
          /\ timer' = [k \in DOMAIN timer |->
                          timer_write(timer @@ [iflag |-> intr.interrupt_flag,
                                                incFrom |-> -1], address, value)[k]]
          /\ timerHist' =
                [timerHist EXCEPT
                    !.writes = @ + 1,
                    !.sinceDiv = IF address = 65284 THEN 0 ELSE @,
                    !.quiet = IF address = 65287 THEN 0 ELSE @,
                    !.fromInc = IF address = 65287 THEN FALSE ELSE @,
                    !.gap = 0,
                    !.op = "write",
                    !.incFrom = -1,
                    !.ifBefore = intr.interrupt_flag,
                    !.before = timer]
    /\ UNCHANGED <<cpuVars, cartVars, ppuVars, dmaVars, ioVars>>

\* C8: a read of $FF04 returns floor(T / 256) mod 256, T being the T-cycles
\* (4 per machine cycle) since reset or the last write to $FF04.
C8_DivRead ==
    timer_read(timer, 65284) = ((4 * timerHist.sinceDiv) \div 256) % 256

\* C9: while the timer is enabled and TAC is left alone, TIMA is incremented
\* once every tac_threshold machine cycles (1024, 16, 64, 256 T-cycles for
\* clock select 0..3): never later than that after the last increment or
\* the TAC write, and exactly that long after the previous increment; an
\* increment from $FF loads TMA and sets the Timer bit of IF in the same
\* tick; while the timer is disabled a tick does not change TIMA.
C9_TimaRate ==
    /\ timer.tima_enable => timerHist.quiet < tac_threshold(timer.tac)
    /\ timerHist.gap # 0 => timerHist.gap = tac_threshold(timer.tac)
    /\ timerHist.incFrom = 255 =>
          (timer.tima = timer.tma /\ Bit(intr.interrupt_flag, 2) = 1)
    /\ timerHist.incFrom \in 0..254 =>
          (timer.tima = timerHist.incFrom + 1
           /\ intr.interrupt_flag = timerHist.ifBefore)
    /\ (timerHist.op = "tick" /\ ~timerHist.before.tima_enable) =>
          timer.tima = timerHist.before.tima


---------------------------------------------------------------------------
(* OAM DMA (bus.rs).  The bus state b gathers the Dma registers, work RAM  *)
(* (the cells written so far; the rest is 0 as Bus::new leaves it), the    *)
(* PPU's OAM as a sequence of 160 bytes, and IF.                           *)

MaxDmaTicks  == 162  \* bus ticks explored after a write to $FF46
MaxDmaWrites == 2    \* CPU writes explored by SpecDma

\* the length of OAM and of a transfer (ppu.rs 50, bus.rs 280)
OamSize == 160

\* the work RAM cell of a bus address in $C000-$FDFF
wram_index(b, address) ==
    (address % 4096) + (BitAnd(address, 4096) * b.wram_bank)

\* Bus::read, the work RAM and OAM arms
bus_mem_read(b, address) ==
    CASE address \in 49152..65023 ->
            IF wram_index(b, address) \in DOMAIN b.wram
            THEN b.wram[wram_index(b, address)] ELSE 0
      [] address \in 65024..65183 -> b.oam[address - 65024 + 1]

\* Dma::write
dma_write(b, value) ==
    [b EXCEPT !.upper_source_address = value, !.counter = 0, !.enable = TRUE]

\* Bus::write, the work RAM, OAM and $FF46 arms
bus_mem_write(b, address, value) ==
    CASE address \in 49152..65023 ->
            [b EXCEPT !.wram = [k \in DOMAIN b.wram \cup {wram_index(b, address)} |->
                                   IF k = wram_index(b, address) THEN value
                                   ELSE b.wram[k]]]
      [] address \in 65024..65183 ->
            [b EXCEPT !.oam[address - 65024 + 1] = value]
      [] address = 65350 -> dma_write(b, value)

\* Bus::process_dma with the transfer ending one byte early
process_dma_short(b) ==
    IF ~b.enable THEN b
    ELSE LET source_address == BitOr(b.upper_source_address * 256, b.counter)
             destination_address == 65024 + b.counter
             data == bus_mem_read(b, source_address)
             b1 == bus_mem_write(b, destination_address, data)
             counter == (b.counter + 1) % 256
         IN [b1 EXCEPT !.counter = counter,
                       !.enable = IF counter = 159 THEN FALSE ELSE @]

\* Bus::process_dma
process_dma(b) ==
    IF ~b.enable THEN b
    ELSE LET source_address == BitOr(b.upper_source_address * 256, b.counter)
             destination_address == 65024 + b.counter
             data == bus_mem_read(b, source_address)
             b1 == bus_mem_write(b, destination_address, data)
             counter == (b.counter + 1) % 256
         IN [b1 EXCEPT !.counter = counter,
                       !.enable = IF counter = 160 THEN FALSE ELSE @]

\* Bus::tick; the HDMA registers are as Hdma::default leaves them, so
\* process_hdma returns at once
bus_tick(b) == process_dma(b)

\* Dma::default
InitDmaRegs == [upper_source_address |-> 0, counter |-> 0, enable |-> FALSE]

\* Bus::new and Ppu::new: work RAM and OAM are zero, WRAM bank 1
InitMem == [wram |-> <<>>, oam |-> [i \in 1..OamSize |-> 0], wram_bank |-> 1]

\* the history kept for the properties:
\*   since        bus ticks since the last write to $FF46, -1 before the first
\*   writes       CPU writes so far
\*   srcDirty     the CPU wrote a byte of the source since that write
\*   oamDirty     the CPU wrote a byte of OAM since that write
\*   op ifBefore before   the last operation, and IF, the Dma registers and
\*                the memory before it
InitDmaHist ==
    [since |-> -1, writes |-> 0, srcDirty |-> FALSE, oamDirty |-> FALSE,
     op |-> "", ifBefore |-> 0, before |-> InitDmaRegs @@ InitMem]

InitDma ==
    /\ dma = InitDmaRegs
    /\ mem = InitMem
    /\ dmaHist = InitDmaHist

\* the bus state gathered from the variables
BusState == dma @@ mem @@ [iflag |-> intr.interrupt_flag]

\* the result b of a bus operation becomes the state
DmaBecomes(b) ==
    /\ dma' = [k \in DOMAIN dma |-> b[k]]
    /\ mem' = [k \in DOMAIN mem |-> b[k]]
    /\ intr' = [intr EXCEPT !.interrupt_flag = b.iflag]
    /\ UNCHANGED <<cpu, crash, checks, last, steps, cartVars, ppuVars, timerVars,
                   ioVars>>

\* Inner1::tick: the bus part of one machine cycle
DmaTick ==
    /\ dmaHist.since < MaxDmaTicks
    /\ \E b \in {bus_tick(BusState)} :
          /\ DmaBecomes(b)
          /\ dmaHist' =
                [dmaHist EXCEPT
                    !.since = IF @ >= 0 THEN @ + 1 ELSE @,
                    !.op = "tick",
                    !.ifBefore = intr.interrupt_flag,
                    !.before = dma @@ mem]

\* the source pages: $C000 in WRAM bank 0 and $D000 in the switchable bank
DmaPages == {192, 208}
\* the first and last byte of each source page, two bytes of OAM, and $FF46
DmaAddrs == {49152, 49311, 53248, 53407, 65024, 65183, 65350}
DmaValues(address) == IF address = 65350 THEN DmaPages ELSE {90}

\* the byte of the source of the current transfer at offset i
SourceByte(b, i) == bus_mem_read(b, BitOr(b.upper_source_address * 256, i))

\* a CPU write to work RAM, OAM or $FF46
DmaCpuWrite ==
    /\ dmaHist.writes < MaxDmaWrites
    /\ \E address \in DmaAddrs : \E value \in DmaValues(address) :
          \E b \in {bus_mem_write(BusState, address, value)} :
             /\ DmaBecomes(b)
             /\ dmaHist' =
                   [dmaHist EXCEPT
                       !.since = IF address = 65350 THEN 0 ELSE @,
                       !.writes = @ + 1,
                       !.srcDirty =
                           IF address = 65350 THEN FALSE
                           ELSE @ \/ (/\ address \in 49152..65023
                                      /\ address \div 256 = dma.upper_source_address
                                      /\ address % 256 < OamSize),
                       !.oamDirty =
                           IF address = 65350 THEN FALSE
                           ELSE @ \/ address \in 65024..65183,
                       !.op = "write",
                       !.ifBefore = intr.interrupt_flag,
                       !.before = dma @@ mem]


---------------------------------------------------------------------------
(* Properties of the OAM DMA.                                              *)

\* OAM holds the 160 bytes of the source of the last transfer
OamIsSource ==
    \A i \in 0..(OamSize - 1) : mem.oam[i + 1] = SourceByte(BusState, i)

\* the transfer tick by tick: it is active with counter = the ticks elapsed
\* for 160 ticks and inactive from then on; an active tick copies the byte
\* at offset counter and nothing else; an inactive tick changes nothing; no
\* tick changes IF
DmaStepwise ==
    /\ dmaHist.since \in 0..(OamSize - 1) =>
          (dma.enable /\ dma.counter = dmaHist.since)
    /\ dmaHist.since >= OamSize => ~dma.enable
    /\ (dmaHist.op = "tick" /\ dmaHist.before.enable) =>
          /\ dmaHist.before.counter = dmaHist.since - 1
          /\ mem.oam = [dmaHist.before.oam EXCEPT
                           ![dmaHist.before.counter + 1] =
                               SourceByte(dmaHist.before, dmaHist.before.counter)]
          /\ mem.wram = dmaHist.before.wram
    /\ (dmaHist.op = "tick" /\ ~dmaHist.before.enable) =>
          dma @@ mem = dmaHist.before
    /\ dmaHist.op = "tick" => intr.interrupt_flag = dmaHist.ifBefore

---------------------------------------------------------------------------
(* VRAM DMA (bus.rs 285-312, 334-382).  The operators work on a record h   *)
(* with the Hdma fields, the cartridge cart and work RAM as the source,    *)
(* the cells of VRAM written so far (bank 0: $FF4F is left as Ppu::new     *)
(* sets it), the panic message crash, and copied: the number of 16-byte    *)
(* blocks process_hdma has copied in this machine cycle.                   *)
(* The device is a Game Boy Color, so the bus passes $FF51-$FF55 to Hdma.  *)

MaxHdmaLead   == 2     \* machine cycles explored before the first write to $FF55
MaxHdmaTicks  == 232   \* machine cycles explored after it: two lines and a bit
MaxHdmaWrites == 2     \* writes to $FF55 explored by SpecHdma

\* Hdma::read
hdma_read(h, address) ==
    IF address \in 65361..65364 THEN 255
    ELSE BitOr(IF h.enable_hdma THEN 0 ELSE 128, h.length)

\* Hdma::write
hdma_write(h, address, value) ==
    CASE address = 65361 ->
            [h EXCEPT !.source_address = BitOr(value * 256, BitAnd(@, 255))]
      [] address = 65362 ->
            [h EXCEPT !.source_address = BitOr(BitAnd(@, 65280), BitAnd(value, 240))]
      [] address = 65363 ->
            [h EXCEPT !.destination_address =
                          BitOr(BitAnd(value, 31) * 256, BitAnd(@, 255))]
      [] address = 65364 ->
            [h EXCEPT !.destination_address =
                          BitOr(BitAnd(@, 65280), BitAnd(value, 240))]
      [] address = 65365 ->
            IF h.enable_hdma THEN [h EXCEPT !.enable_hdma = FALSE]
            ELSE IF Bit(value, 7) = 1
            THEN [h EXCEPT !.enable_hdma = TRUE, !.length = BitAnd(value, 127)]
            ELSE [h EXCEPT !.enable_gdma = TRUE, !.length = BitAnd(value, 127)]

\* Bus::read of a source address: the cartridge and work RAM arms
hdma_bus_read(h, address) ==
    IF address < 32768 THEN cartridge_read(h.cart, address, 0).val
    ELSE bus_mem_read(h, address)

\* Ppu::write of a VRAM address, reached through Bus::write
ppu_write_vram(h, address, value) ==
    [h EXCEPT !.vram = [k \in DOMAIN h.vram \cup {address - 32768} |->
                           IF k = address - 32768 THEN value ELSE h.vram[k]]]

\* Ppu::read of a VRAM address
ppu_read_vram(v, address) ==
    IF address - 32768 \in DOMAIN v THEN v[address - 32768] ELSE 0

\* the loop of Bus::process_hdma, from byte i on
RECURSIVE hdma_copy(_, _)
hdma_copy(h, i) ==
    IF i = 16 THEN h
    ELSE Bind(hdma_bus_read(h, h.source_address + i), LAMBDA value :
             hdma_copy(ppu_write_vram(h, BitOr(32768, h.destination_address + i),
                                      value),
                       i + 1))

\* Bus::process_hdma
process_hdma(h, mode) ==
    IF h.enable_gdma /\ h.enable_hdma
    THEN [h EXCEPT !.crash = "assertion failed"]
    ELSE LET is_hblank == mode = "HBlank"
             enter_hblank == is_hblank /\ ~h.is_prev_hblank
         IN Bind([h EXCEPT !.is_prev_hblank = is_hblank], LAMBDA h1 :
               IF h1.enable_gdma \/ (h1.enable_hdma /\ enter_hblank)
               THEN Bind(hdma_copy(h1, 0), LAMBDA h2 :
                       LET destination_address ==
                               (h2.destination_address + 16) % 65536
                           ovf == h2.length = 0
                           done == ovf \/ destination_address >= 8192
                       IN [h2 EXCEPT
                              !.source_address = (@ + 16) % 65536,
                              !.destination_address =
                                  IF done THEN BitAnd(destination_address, 8191)
                                  ELSE destination_address,
                              !.length = (@ + 255) % 256,
                              !.enable_gdma = IF done THEN FALSE ELSE @,
                              !.enable_hdma = IF done THEN FALSE ELSE @,
                              !.copied = @ + 1])
               ELSE h1)

\* Hdma::default
InitHdmaRegs ==
    [source_address |-> 0, destination_address |-> 0, length |-> 0,
     enable_gdma |-> FALSE, enable_hdma |-> FALSE, is_prev_hblank |-> FALSE]

\* the history kept for the properties:
\*   lead       machine cycles before the first write to $FF55
\*   age        machine cycles since the first write to $FF55
\*   since      machine cycles since the last write to $FF55 that started a
\*              transfer, -1 before the first, 2 for two or more
\*   writes     writes to $FF55 so far
\*   kind n src dst   of that start: "gdma" or "hdma", the length field, and
\*              the source and destination registers at that time
\*   blocks     blocks copied since that start
\*   want       an HBlank transfer was started, fewer than n + 1 blocks have
\*              been copied and no write to $FF55 with bit 7 clear followed
\*   op copied  the last operation, and the blocks copied in its cycle
\*   entered    in that cycle the bus found the PPU in HBlank, having found
\*              it in another mode the cycle before
\*   wanted     want before the last operation
\*   seen       the PPU was in HBlank at the last machine cycle
InitHdmaHist ==
    [lead |-> 0, age |-> 0, since |-> -1, writes |-> 0, kind |-> "", n |-> 0, src |-> 0,
     dst |-> 0, blocks |-> 0, want |-> FALSE, op |-> "", copied |-> 0,
     entered |-> FALSE, wanted |-> FALSE, seen |-> FALSE]

\* Bus::new and Ppu::new
InitHdma ==
    /\ hdma = InitHdmaRegs
    /\ vram = <<>>
    /\ hdmaHist = InitHdmaHist

\* the state the bus works on in a machine cycle
HdmaState ==
    hdma @@ mem @@ [cart |-> cart, vram |-> vram, crash |-> crash, copied |-> 0]

\* the registers the program sets up before it starts a transfer, and LCDC
HdmaSetupAddrs == {65362, 65344}
\* the second block of the source; LCD on
HdmaSetupValues(address) == IF address = 65344 THEN {128} ELSE {16}
\* $FF55: a general-purpose or an HBlank transfer of one or two blocks
HdmaStartValues == {0, 1, 128, 129}

\* Cpu::tick and, for a write, Bus::write after it: one machine cycle in
\* which the bus runs process_hdma and the PPU advances, then the store of
\* value at address if write is set
HdmaAdvance(write, address, value) ==
    \E h1 \in {process_hdma(HdmaState, ppu.mode)} :
    \E p1 \in {ppu_tick(ppu @@ ppuHist @@ [iflag |-> intr.interrupt_flag])} :
    \E h2 \in {IF write /\ address \in 65361..65365 /\ h1.crash = ""
               THEN hdma_write(h1, address, value) ELSE h1} :
    \E p2 \in {IF write /\ address = 65344 /\ h1.crash = ""
               THEN ppu_write_lcdc(p1, value) ELSE p1} :
       LET start == write /\ address = 65365 /\ h1.crash = ""
           entered == ppu.mode = "HBlank" /\ ~hdmaHist.seen
           blocks == hdmaHist.blocks + h1.copied
           want1 == hdmaHist.want /\ blocks < hdmaHist.n + 1
           begins == start /\ ~want1
       IN /\ hdma' = [k \in DOMAIN hdma |-> h2[k]]
          /\ vram' = h2.vram
          /\ crash' = h2.crash
          /\ ppu' = [k \in DOMAIN ppu |-> p2[k]]
          /\ ppuHist' = [k \in DOMAIN ppuHist |-> p2[k]]
          /\ intr' = [intr EXCEPT !.interrupt_flag = p2.iflag]
          /\ hdmaHist' =
                [lead |-> IF hdmaHist.writes = 0 THEN hdmaHist.lead + 1
                          ELSE hdmaHist.lead,
                 age |-> IF hdmaHist.writes = 0 THEN 0 ELSE hdmaHist.age + 1,
                 since |-> IF begins THEN 0
                           ELSE IF hdmaHist.since \in 0..1 THEN hdmaHist.since + 1
                           ELSE hdmaHist.since,
                 writes |-> hdmaHist.writes + (IF start THEN 1 ELSE 0),
                 kind |-> IF begins
                          THEN (IF Bit(value, 7) = 1 THEN "hdma" ELSE "gdma")
                          ELSE hdmaHist.kind,
                 n |-> IF begins THEN BitAnd(value, 127) ELSE hdmaHist.n,
                 src |-> IF begins THEN h1.source_address ELSE hdmaHist.src,
                 dst |-> IF begins THEN h1.destination_address ELSE hdmaHist.dst,
                 blocks |-> IF begins THEN 0 ELSE blocks,
                 want |-> IF begins THEN Bit(value, 7) = 1
                          ELSE want1 /\ ~(start /\ Bit(value, 7) = 0),
                 op |-> IF write THEN "write" ELSE "tick",
                 copied |-> h1.copied,
                 entered |-> entered,
                 wanted |-> hdmaHist.want,
                 seen |-> ppu.mode = "HBlank"]
          /\ UNCHANGED <<cpu, checks, last, steps, cartVars, timerVars, dmaVars,
                         serialVars, joypadVars, config, statOut,
                   extVars>>

\* a machine cycle in which the CPU does not write
HdmaTick ==
    /\ crash = ""
    /\ IF hdmaHist.writes = 0 THEN hdmaHist.lead < MaxHdmaLead
       ELSE hdmaHist.age < MaxHdmaTicks
    /\ HdmaAdvance(FALSE, 0, 0)

\* the program sets the LCD and the transfer up: its first writes
HdmaSetup ==
    /\ crash = ""
    /\ hdmaHist.writes = 0
    /\ hdmaHist.lead < MaxHdmaLead
    /\ \E address \in HdmaSetupAddrs : \E value \in HdmaSetupValues(address) :
          HdmaAdvance(TRUE, address, value)

\* a CPU write to $FF55
HdmaCpuWrite ==
    /\ crash = ""
    /\ hdmaHist.writes < MaxHdmaWrites
    /\ hdmaHist.age < MaxHdmaTicks
    /\ \E value \in HdmaStartValues : HdmaAdvance(TRUE, 65365, value)

---------------------------------------------------------------------------
(* Properties of the VRAM DMA.                                             *)

\* the first count bytes at the destination of the last transfer are those
\* at its source
HdmaInPlace(count) ==
    \A i \in 0..(count - 1) :
        ppu_read_vram(vram, 32768 + hdmaHist.dst + i)
            = hdma_bus_read(HdmaState, hdmaHist.src + i)

\* C11: a write to $FF55 with bit 7 clear and length field N, no HBlank
\* transfer being active, copies the whole block of (N + 1) * 16 bytes at
\* once: one machine cycle later, when the CPU can next access memory, all
\* N + 1 blocks have been copied and are in place in VRAM.
C11_GdmaAtOnce ==
    (hdmaHist.kind = "gdma" /\ hdmaHist.since >= 1 /\ crash = "") =>
        /\ hdmaHist.blocks = hdmaHist.n + 1
        /\ HdmaInPlace((hdmaHist.n + 1) * 16)

\* C12: after a write to $FF55 with bit 7 set and length field N, no
\* transfer being active, the machine cycle in which the bus finds the PPU
\* newly in HBlank copies one block and no other cycle copies any, until
\* N + 1 blocks are copied or a write to $FF55 with bit 7 clear; until then
\* $FF55 reads bit 7 = 0 and the blocks remaining minus one, and after that
\* bit 7 reads 1; the blocks copied are in place in VRAM.
C12_HdmaPerHBlank ==
    (hdmaHist.kind = "hdma" /\ crash = "") =>
        /\ hdmaHist.want =>
              hdma_read(hdma, 65365) = hdmaHist.n - hdmaHist.blocks
        /\ ~hdmaHist.want => Bit(hdma_read(hdma, 65365), 7) = 1
        /\ (hdmaHist.since >= 1 /\ hdmaHist.wanted) =>
              hdmaHist.copied = (IF hdmaHist.entered THEN 1 ELSE 0)
        /\ (hdmaHist.since >= 1 /\ ~hdmaHist.wanted) => hdmaHist.copied = 0
        /\ HdmaInPlace(hdmaHist.blocks * 16)

---------------------------------------------------------------------------
(* The serial port (src/src/serial.rs).  The operators work on a record s  *)
(* with the Serial fields buf, send_buf (-1 for None), tick_timer and sc,  *)
(* the link cable (kind: "none" when no cable is attached, "sink" for a    *)
(* cable whose try_recv returns None every time, "peer" for one that may   *)
(* return a byte; sent: the bytes passed to send, in order) and IF.        *)

MaxSerialTicks  == 258  \* machine cycles explored after a transfer is started
MaxSerialWrites == 4    \* CPU writes to $FF01 and $FF02 explored by SpecSerial

\* the machine cycles of a transfer of 8 bits at 128 T-cycles a bit
SerialCycles == 256

\* Serial::read
serial_read(s, address) == IF address = 65281 THEN s.buf ELSE s.sc

\* Serial::write
serial_write(s, address, value) ==
    IF address = 65281 THEN [s EXCEPT !.buf = value]
    ELSE IF Bit(value, 7) = 1 /\ Bit(s.sc, 7) = 0
    THEN [s EXCEPT !.sc = value, !.send_buf = s.buf, !.tick_timer = 128 * 8]
    ELSE [s EXCEPT !.sc = value]

\* LinkCable::send
cable_send(s, data) == [s EXCEPT !.sent = Append(@, data)]

\* Serial::tick; recv is what try_recv returns when it is called, -1 for None
serial_tick(s, recv) ==
    IF Bit(s.sc, 7) = 0 \/ s.kind = "none" THEN s
    ELSE IF Bit(s.sc, 0) = 0
    THEN IF recv >= 0 /\ s.send_buf >= 0
         THEN [cable_send(s, s.send_buf) EXCEPT
                  !.buf = recv, !.send_buf = -1, !.sc = SetBit(@, 7, FALSE),
                  !.iflag = SetBit(@, 3, TRUE)]
         ELSE s
    ELSE Bind(IF s.send_buf >= 0
              THEN [cable_send(s, s.send_buf) EXCEPT !.send_buf = -1] ELSE s,
              LAMBDA s1 :
                 IF recv >= 0
                 THEN [s1 EXCEPT !.buf = recv, !.sc = SetBit(@, 7, FALSE),
                                 !.iflag = SetBit(@, 3, TRUE)]
                 ELSE s1)

\* Serial::default
InitSerialRegs == [buf |-> 0, send_buf |-> -1, tick_timer |-> 0, sc |-> 0]

\* the history kept for the properties:
\*   writes     CPU writes to the serial registers so far
\*   requested  the bytes b of the sequences `b to $FF01, $81 to $FF02':
\*              the byte in SB at each write of $81 to $FF02
\*   since      machine cycles since the last write of $81 to $FF02, -1
\*              before the first and after another write to $FF02
\*   prev       the register written last, 0 before the first write
\*   stray      some write to $FF02 so far was not the second half of such a
\*              sequence: another value, or not straight after a write of SB
InitSerialHist ==
    [writes |-> 0, requested |-> <<>>, since |-> -1, prev |-> 0,
     stray |-> FALSE]

\* Serial::new without a link cable
InitIdleSerial ==
    /\ serial = InitSerialRegs
    /\ cable = [kind |-> "none", sent |-> <<>>]
    /\ serialHist = InitSerialHist

CableKinds == {"none", "sink", "peer"}

\* Serial::new with any of the cables
InitSerial ==
    /\ serial = InitSerialRegs
    /\ cable \in {[kind |-> kind, sent |-> <<>>] : kind \in CableKinds}
    /\ serialHist = InitSerialHist

SerialState == serial @@ cable @@ [iflag |-> intr.interrupt_flag]

\* the result s of a serial operation becomes the state
SerialBecomes(s) ==
    /\ serial' = [k \in DOMAIN serial |-> s[k]]
    /\ cable' = [k \in DOMAIN cable |-> s[k]]
    /\ intr' = [intr EXCEPT !.interrupt_flag = s.iflag]
    /\ UNCHANGED <<cpu, crash, checks, last, steps, cartVars, ppuVars, timerVars,
                   dmaVars, hdmaVars, joypadVars, config, statOut,
                   extVars>>

\* what try_recv may return: the peer's byte or None
Received(kind) == IF kind = "peer" THEN {-1, 7} ELSE {-1}

\* Inner1::tick: the serial part of one machine cycle
SerialTick ==
    /\ serialHist.since < MaxSerialTicks
    /\ \E recv \in Received(cable.kind) :
          \E s \in {serial_tick(SerialState, recv)} :
             /\ SerialBecomes(s)
             /\ serialHist' =
                   [serialHist EXCEPT !.since = IF @ >= 0 THEN @ + 1 ELSE @]

SerialAddrs == {65281, 65282}
\* two bytes for SB; for SC a start with the internal and one with the
\* external clock
SerialValues(address) == IF address = 65281 THEN {65, 66} ELSE {129, 128}

\* a CPU write to $FF01 or $FF02; the program leaves a transfer the 256
\* machine cycles it takes before it writes again
SerialWrite ==
    /\ serialHist.writes < MaxSerialWrites
    /\ serialHist.since \notin 0..(SerialCycles - 1)
    /\ \E address \in SerialAddrs : \E value \in SerialValues(address) :
          \E s \in {serial_write(SerialState, address, value)} :
             /\ SerialBecomes(s)
             /\ serialHist' =
                   [writes |-> serialHist.writes + 1,
                    requested |->
                        IF address = 65282 /\ value = 129
                        THEN Append(serialHist.requested,
                                    serial_read(serial, 65281))
                        ELSE serialHist.requested,
                    since |-> IF address = 65281 THEN serialHist.since
                              ELSE IF value = 129 THEN 0 ELSE -1,
                    prev |-> address,
                    stray |-> \/ serialHist.stray
                              \/ /\ address = 65282
                                 /\ value # 129 \/ serialHist.prev # 65281]

---------------------------------------------------------------------------
(* Properties of the serial port.                                          *)

\* C13: over a cable that never returns a byte, every sequence `b to $FF01,
\* $81 to $FF02' makes the port send b once, in program order: the bytes
\* sent are always the first of those requested, and all of them once the
\* 256 machine cycles of the last transfer have passed.
C13_SendEach ==
    cable.kind = "sink" /\ ~serialHist.stray =>
        /\ Len(cable.sent) <= Len(serialHist.requested)
        /\ cable.sent = SubSeq(serialHist.requested, 1, Len(cable.sent))
        /\ serialHist.since >= SerialCycles => cable.sent = serialHist.requested

\* C14: a transfer started with the internal clock completes 256 machine
\* cycles (8 * 128 T-cycles) after the write to $FF02, not before: until
\* then SC bit 7 reads 1, from then on it reads 0 and the Serial bit of IF
\* is set, whether a cable is attached or not and whatever it returns.
C14_Completes ==
    /\ serialHist.since \in 0..(SerialCycles - 1) /\ ~serialHist.stray =>
          Bit(serial_read(serial, 65282), 7) = 1
    /\ serialHist.since >= SerialCycles /\ ~serialHist.stray =>
          /\ Bit(serial_read(serial, 65282), 7) = 0
          /\ Bit(intr.interrupt_flag, 3) = 1

---------------------------------------------------------------------------
(* LCDC bit 7 and LY (ppu.rs 137-145, 196-227), over the PPU actions.      *)

\* C15: a machine cycle or a write that begins and ends with LCDC bit 7
\* clear leaves LY reading 0; the write that sets LCDC bit 7 restarts the
\* frame at LY = 0; and in the frame that follows LY is the number of lines
\* of 456 dots elapsed, 0 to 153 and back to 0, with one VBlank interrupt
\* raised in it.
C15_LcdOffOn ==
    [][/\ (~lcd_enable(ppu) /\ ~lcd_enable(ppu')) => ppu'.ly = 0
       /\ (~lcd_enable(ppu) /\ lcd_enable(ppu')) =>
             (ppu'.ly = 0 /\ ppu'.lx = 0 /\ ppuHist'.dots = 0)
       /\ ppuHist'.clean =>
             /\ ppu'.ly = ppuHist'.dots \div 456
             /\ ppuHist'.vbl = (IF ppuHist'.dots >= 144 * 456 THEN 1 ELSE 0)
       /\ ppuHist'.lastClean => ppuHist'.lastVbl = 1]_vars

---------------------------------------------------------------------------
(* STAT (ppu.rs 74-77, 146).                                               *)

MaxStatDots == 300   \* dots of a frame explored by SpecStat: a line and a bit
MaxStatOps  == 3     \* reads and writes of $FF41 and $FF45 explored by SpecStat

\* PpuMode as the two bits of the enum
mode_bits(mode) ==
    CASE mode = "HBlank" -> 0 [] mode = "VBlank" -> 1
      [] mode = "OamSearch" -> 2 [] mode = "DataTransfer" -> 3

\* Ppu::read of $FF41: the coincidence bit is refreshed, then the register
\* is returned as stored
ppu_read_stat(p) == [p EXCEPT !.stat = SetBit(@, 2, p.ly = p.lyc)]

\* Ppu::write of $FF41 and of $FF45
ppu_write_stat(p, address, value) ==
    IF address = 65345 THEN [p EXCEPT !.stat = BitAnd(value, 124)]
    ELSE [p EXCEPT !.lyc = value]

\* the history of the last access to STAT: the operation, the byte read or
\* written, the value a read would have returned before it, and the mode,
\* LY and LYC at the time; n counts the accesses
InitStatOut ==
    [op |-> "", value |-> 0, before |-> 0, mode |-> "", ly |-> 0, lyc |-> 0, n |-> 0]

\* Inner1::ppu_tick while the frame is young
StatTick ==
    /\ ppuHist.dots < MaxStatDots
    /\ PpuTick

\* a CPU read of $FF41
PpuReadStat ==
    /\ statOut.n < MaxStatOps
    /\ \E p \in {ppu_read_stat(ppu)} :
          /\ ppu' = p
          /\ statOut' = [op |-> "read", value |-> p.stat, before |-> p.stat,
                         mode |-> ppu.mode, ly |-> ppu.ly, lyc |-> ppu.lyc,
                         n |-> statOut.n + 1]
    /\ UNCHANGED <<cpuVars, cartVars, ppuHist, timerVars, dmaVars, hdmaVars,
                   serialVars, joypadVars, config, extVars>>

StatAddrs == {65345, 65349}
\* for STAT every bit, none, and the LYC and HBlank sources; for LYC 0 and 1
StatValues(address) == IF address = 65345 THEN {255, 0, 72} ELSE {0, 1}

\* a CPU write to $FF41 or $FF45
PpuWriteStat ==
    /\ statOut.n < MaxStatOps
    /\ \E address \in StatAddrs : \E value \in StatValues(address) :
          \E p \in {ppu_write_stat(ppu, address, value)} :
             /\ ppu' = p
             /\ statOut' = [op |-> IF address = 65345 THEN "write" ELSE "lyc",
                            value |-> value, before |-> ppu_read_stat(ppu).stat,
                            mode |-> ppu.mode, ly |-> ppu.ly, lyc |-> ppu.lyc,
                            n |-> statOut.n + 1]
    /\ UNCHANGED <<cpuVars, cartVars, ppuHist, timerVars, dmaVars, hdmaVars,
                   serialVars, joypadVars, config, extVars>>

\* C16: a read of $FF41 returns the PPU mode in bits 0-1 and LY = LYC in
\* bit 2, whatever was written to $FF41 before; a write to $FF41 changes at
\* most bits 3-6 of what a read returns.
C16_StatReadOnly ==
    /\ statOut.op = "read" =>
          /\ statOut.value % 4 = mode_bits(statOut.mode)
          /\ Bit(statOut.value, 2) = (IF statOut.ly = statOut.lyc THEN 1 ELSE 0)
    /\ statOut.op = "write" =>
          BitAnd(ppu_read_stat(ppu).stat, 135) = BitAnd(statOut.before, 135)

---------------------------------------------------------------------------
(* The speed switch (config.rs) and STOP (cpu.rs 456-458).  config holds   *)
(* the byte of PrepareSpeedSwitch: armed in bit 0, speed in bit 7.         *)

MaxSpeedSteps  == 4    \* execute_instruction calls explored by SpecSpeed
MaxSpeedWrites == 2    \* writes to $FF4D explored by SpecSpeed

\* Config::set_speed_switch
set_speed_switch(value) == BitAnd(value, 1)

\* Config::get_speed_switch
get_speed_switch(speed_switch) == BitOr(speed_switch, 126)

\* Config::current_speed
current_speed(speed_switch) == IF Bit(speed_switch, 7) = 1 THEN "Double" ELSE "Normal"

\* PrepareSpeedSwitch::armed
armed(speed_switch) == Bit(speed_switch, 0) = 1

\* Config::new, and the history: the last operation, the number of writes
\* and the register before the last operation
InitConfig ==
    config = [speed_switch |-> 0, op |-> "", writes |-> 0, before |-> 0]

\* a CPU write to $FF4D
SpeedValues == {0, 1, 128, 129}
SpeedWrite ==
    /\ crash = ""
    /\ config.writes < MaxSpeedWrites
    /\ \E value \in SpeedValues :
          config' = [speed_switch |-> set_speed_switch(value), op |-> "write",
                     writes |-> config.writes + 1, before |-> config.speed_switch]
    /\ UNCHANGED <<cpuVars, cartVars, ppuVars, timerVars, dmaVars, hdmaVars,
                   serialVars, joypadVars, statOut, extVars>>

\* NOP, STOP, INC A
SpeedOpcodes == {0, 16, 60}

\* Cpu::execute_instruction; Cpu::stop is not passed the context, so the
\* step leaves Config alone
StepSpeed ==
    /\ crash = ""
    /\ steps < MaxSpeedSteps
    /\ \E opcode \in SpeedOpcodes : Execute(opcode, 0, 0, 0)
    /\ config' = [config EXCEPT !.op = "step", !.before = config.speed_switch]
    /\ UNCHANGED <<cartVars, ppuVars, timerVars, dmaVars, hdmaVars, serialVars,
                   joypadVars, statOut, extVars>>

\* C17: STOP executed with the speed switch armed toggles the current speed
\* and leaves the CPU running; executed with the switch not armed it halts
\* the CPU and leaves the speed as it was.
C17_StopSwitches ==
    (config.op = "step" /\ last.kind = "instruction" /\ last.opcode = 16
     /\ crash = "")
    => IF armed(config.before)
       THEN /\ current_speed(config.speed_switch) # current_speed(config.before)
            /\ ~cpu.halt
       ELSE /\ current_speed(config.speed_switch) = current_speed(config.before)
            /\ cpu.halt

---------------------------------------------------------------------------
(* The joypad (src/src/joypad.rs).  joypad holds the bits of Keys: bit k   *)
(* is set while key k is held (JoypadKeyState::set_key inserts the flag of *)
(* a pressed key), so the register bit of a held key reads 0.              *)

MaxKeyChanges == 3   \* calls of set_key explored by SpecJoypad

\* Joypad::set_key on a record j with key_state and IF
joypad_set_key(j, key_state) ==
    LET prev_key == j.key_state
        cur_key == key_state
        changed_keys == BitXor(prev_key, cur_key)
        pressed_keys == BitAnd(changed_keys, 255 - cur_key)
    IN [key_state |-> key_state,
        iflag |-> IF pressed_keys # 0 THEN SetBit(j.iflag, 4, TRUE) ELSE j.iflag]

\* Joypad::new, and the history: the number of calls, the last operation,
\* and the keys and IF before it
InitJoypad ==
    /\ joypad = [key_state |-> 0]
    /\ joypadHist = [n |-> 0, op |-> "", prev |-> 0, ifBefore |-> 0]

\* the direction keys in every combination, A alone, and every key
KeyStates == 0..16 \cup {255}

\* Context::set_key, as the front end calls it before every frame
JoypadSetKey ==
    /\ joypadHist.n < MaxKeyChanges
    /\ \E key_state \in KeyStates :
          \E j \in {joypad_set_key([key_state |-> joypad.key_state,
                                    iflag |-> intr.interrupt_flag], key_state)} :
             /\ joypad' = [key_state |-> j.key_state]
             /\ intr' = [intr EXCEPT !.interrupt_flag = j.iflag]
             /\ joypadHist' = [n |-> joypadHist.n + 1, op |-> "set_key",
                               prev |-> joypad.key_state,
                               ifBefore |-> intr.interrupt_flag]
    /\ UNCHANGED <<cpu, crash, checks, last, steps, cartVars, ppuVars, timerVars,
                   dmaVars, hdmaVars, serialVars, config, statOut,
                   extVars>>

\* a CPU write of 0 to $FF0F: the program acknowledges what is pending
JoypadAck ==
    /\ intr.interrupt_flag # 0
    /\ intr' = [intr EXCEPT !.interrupt_flag = 0]
    /\ joypadHist' = [joypadHist EXCEPT !.op = "ack"]
    /\ UNCHANGED <<cpu, crash, checks, last, steps, cartVars, ppuVars, timerVars,
                   dmaVars, hdmaVars, serialVars, joypad, config, statOut,
                   extVars>>

\* some key is held in the new key state that was not in the previous one
KeyPressed(prev, cur) == \E k \in 0..7 : Bit(prev, k) = 0 /\ Bit(cur, k) = 1

\* C18: set_key sets the Joypad bit of IF exactly when a key that was
\* released in the previous key state is pressed in the new one; a change
\* that only releases keys, and no change, leave IF as it was.
C18_PressRaises ==
    joypadHist.op = "set_key" =>
        intr.interrupt_flag =
            (IF KeyPressed(joypadHist.prev, joypad.key_state)
             THEN SetBit(joypadHist.ifBefore, 4, TRUE) ELSE joypadHist.ifBefore)

---------------------------------------------------------------------------
(* The order of bus access and bus tick, and HALT, over the CPU step.      *)

\* C19: every read and write of a step is followed in the step's bus
\* events by the tick it triggers: the access comes before its machine
\* cycle advances the DMA and the peripherals.
C19_AccessBeforeTick ==
    steps > 0 =>
        \A k \in 1..Len(last.log) :
            last.log[k].op \in {"read", "write"} =>
                (k < Len(last.log) /\ last.log[k + 1].op = "tick")

MaxHaltSteps == 5    \* execute_instruction calls explored by SpecHalt

\* NOP, HALT, LDH (a8),A, EI
HaltOpcodes == {0, 118, 224, 251}
\* the VBlank bit of IF
HaltRaiseBits == {1}

\* SpecHalt: the opcodes around HALT, with the PPU raising the VBlank
\* interrupt during the first tick of the step, or not at all
StepHalt ==
    /\ crash = ""
    /\ steps < MaxHaltSteps
    /\ \E opcode \in HaltOpcodes : \E x \in Operands(opcode) :
          \/ Execute(opcode, x, 0, 0)
          \/ \E bits \in HaltRaiseBits : Execute(opcode, x, 1, bits)
    /\ UNCHANGED <<cartVars, ppuVars, timerVars, dmaVars, ioVars>>

\* the bus events of the last step that are not ticks
Accesses == SelectSeq(last.log, LAMBDA ev : ev.op # "tick")

\* C20: a step of the halted CPU with (IE AND IF) = 0 takes one machine
\* cycle, accesses no memory and leaves the registers, PC, SP, IME and the
\* halted state as they were; a step of the halted CPU with IME clear and
\* an enabled interrupt pending leaves HALT without a push or a jump and
\* with IF as it was (but for what a peripheral raises meanwhile), and the
\* step after it executes the instruction at PC, the one following HALT.
C20_Halt ==
    [][/\ (cpu.halt /\ BitAnd(intr.interrupt_enable, intr.interrupt_flag) = 0) =>
             /\ cpu' = cpu
             /\ last'.cycles = 1
             /\ last'.kind = "halted"
             /\ Accesses' = <<>>
             /\ crash' = ""
       /\ (/\ cpu.halt
           /\ ~cpu.ime
           /\ BitAnd(intr.interrupt_enable, intr.interrupt_flag) # 0) =>
             /\ cpu' = [cpu EXCEPT !.halt = FALSE]
             /\ last'.cycles = 1
             /\ Accesses' = <<>>
             /\ BitAnd(intr'.interrupt_flag, intr.interrupt_flag)
                   = intr.interrupt_flag
             /\ crash' = ""
       /\ (last.kind = "halted" /\ ~cpu.halt /\ ~cpu.ime) =>
             /\ last'.kind = "instruction"
             /\ last'.irq = -1
             /\ Accesses'[1] = Ev("read", cpu.pc, last'.opcode)]_vars

\* C20 witness: the CPU was halted with IME clear, VBlank became pending
\* and enabled while it was, the next step left HALT, and the step after
\* that executed the instruction following HALT with the interrupt still
\* pending and nothing dispatched
C20_Witness ==
    /\ steps = MaxHaltSteps
    /\ last.kind = "instruction"
    /\ last.opcode = 0
    /\ ~cpu.halt
    /\ ~cpu.ime
    /\ BitAnd(intr.interrupt_enable, intr.interrupt_flag) = 1
    /\ cpu.pc = 256 + 2 + 1 + 1

---------------------------------------------------------------------------
(* IF seen from the bus (bus.rs 83, 185; interrupt.rs 26-28).              *)

\* the history of bus accesses: the last operation, its address, the value
\* read, and the value last written to $FF0F
InitBusOut == [op |-> "", address |-> 0, value |-> 0, written |-> 0]

\* the registers of Interrupt as bus_read and bus_write take them
IntrRegs == [iflag |-> intr.interrupt_flag, ienable |-> intr.interrupt_enable]

\* bytes for $FF0F: each of bits 4-7 alone, the low five bits, the high
\* three, none and all
IfValues == {0, 1, 16, 31, 32, 64, 128, 224, 255}

\* a CPU write to $FF0F
IfWrite ==
    /\ \E value \in IfValues :
          \E r \in {bus_write(IntrRegs, 65295, value)} :
             /\ intr' = [interrupt_flag |-> r.iflag, interrupt_enable |-> r.ienable]
             /\ busOut' = [op |-> "write", address |-> 65295, value |-> value,
                           written |-> value]
    /\ UNCHANGED <<cpu, crash, checks, last, steps, cartVars, ppuVars, timerVars,
                   dmaVars, hdmaVars, serialVars, joypadVars, config, statOut, busRest>>

\* a CPU read of $FF0F
IfRead ==
    /\ busOut' = [busOut EXCEPT !.op = "read", !.address = 65295,
                                !.value = bus_read(IntrRegs, 65295, 0)]
    /\ UNCHANGED <<cpuVars, cartVars, ppuVars, timerVars, dmaVars, hdmaVars,
                   serialVars, joypadVars, config, statOut, busRest>>

\* C21: after a write of X to $FF0F the IF register holds X AND $1F, and a
\* read of $FF0F after it returns (X AND $1F) OR $E0.
C21_IfLowFive ==
    busOut.address = 65295 =>
        /\ busOut.op = "write" =>
              intr.interrupt_flag = BitAnd(busOut.written, 31)
        /\ busOut.op = "read" =>
              busOut.value = BitOr(BitAnd(busOut.written, 31), 224)

---------------------------------------------------------------------------
(* Bus reads of addresses without memory or register (bus.rs 66-163,       *)
(* apu.rs 42-83).                                                          *)

DeviceModes == {"GameBoy", "GameBoyColor"}

\* $FEA0-$FEFF, $FF03, $FF08-$FF0E, $FF15, $FF1F, $FF27-$FF2F, $FF4C, $FF50,
\* $FF56-$FF67, $FF6C-$FF6F, $FF71
UnmappedAddrs ==
    (65184..65279) \cup {65283} \cup (65288..65294) \cup {65301, 65311}
       \cup (65319..65327) \cup {65356, 65360} \cup (65366..65383)
       \cup (65388..65391) \cup {65393}

\* Apu::read of an address of $FF10-$FF3F that is none of its registers:
\* the last arm of its match
apu_read_other(address) == 0

\* Bus::read of an address of UnmappedAddrs: the arms of the match that
\* these addresses reach, the last one being `_'
bus_read_other(address, mode) ==
    CASE address \in 65184..65279 -> 255
      [] address \in 65296..65343 -> apu_read_other(address)
      [] address = 65356 -> 255
      [] address = 65360 -> 255
      [] OTHER -> 0

\* a CPU read of an address without memory or register
BusReadOther ==
    /\ \E address \in UnmappedAddrs :
          busOut' = [busOut EXCEPT !.op = "read", !.address = address,
                                   !.value = bus_read_other(address, device_mode)]
    /\ UNCHANGED <<cpuVars, cartVars, ppuVars, timerVars, dmaVars, hdmaVars,
                   serialVars, joypadVars, config, statOut, busRest>>

\* C27: a read of an address that maps to no memory or register returns
\* $FF, in either device mode.
C27_UnmappedReads ==
    (busOut.op = "read" /\ busOut.address \in UnmappedAddrs) => busOut.value = 255

---------------------------------------------------------------------------
(* The registers at reset (cpu.rs 21-31, 1108-1125).  Cpu::new and         *)
(* Registers::default take no device mode: InitCpuRegs is the state of     *)
(* either device.                                                          *)

\* C28: before the first step A = $01 and F = $B0 on a Game Boy, A = $11 on
\* a Game Boy Color, PC = $0100, SP = $FFFE, IME is clear and the CPU is
\* not halted.
C28_PostBoot ==
    steps = 0 =>
        /\ device_mode = "GameBoy" => (cpu.a = 1 /\ cpu.f = 176)
        /\ device_mode = "GameBoyColor" => cpu.a = 17
        /\ cpu.pc = 256
        /\ cpu.sp = 65534
        /\ ~cpu.ime
        /\ ~cpu.halt

---------------------------------------------------------------------------
(* The low nibble of F (cpu.rs 1127-1136, 1198-1205), over the CPU step.   *)

\* C29: after any sequence of instructions, POP AF of an arbitrary byte
\* among them, the low four bits of F are zero, and the low byte that
\* PUSH AF stores has a low nibble of 0.
C29_FLowNibble ==
    /\ cpu.f % 16 = 0
    /\ (steps > 0 /\ last.kind = "instruction" /\ last.opcode = 245
        /\ crash = "") =>
          (Len(Written) = 2 /\ Written[2] % 16 = 0)

\* C29 witness: POP AF has just loaded $FE from the stack into F, which
\* holds $F0
C29_Witness ==
    /\ steps > 0
    /\ last.kind = "instruction"
    /\ last.opcode = 241
    /\ \E k \in 1..Len(last.log) :
          last.log[k].op = "read" /\ last.log[k].addr = 65534
             /\ last.log[k].val = 254
    /\ cpu.a = 254
    /\ cpu.f = 240

---------------------------------------------------------------------------
(* MBC1 banking (cartridge/mbc/mbc1.rs 15-64).  mbc1Hist holds the byte    *)
(* last written to the low bank register ($2000-$3FFF), to the upper bits  *)
(* register ($4000-$5FFF) and to the mode register ($6000-$7FFF), each -1  *)
(* until it is written, and the byte last written to each RAM cell.        *)

MaxMbc1Ops == 5      \* bus accesses to the cartridge explored by SpecMbc1

InitMbc1Hist == [low |-> -1, upper |-> -1, mode |-> -1, n |-> 0]

\* header byte $0148 = 1, 5, 6: 64 KiB, 1 MiB and 2 MiB
Mbc1RomSizes == {65536, 1048576, 2097152}
\* header byte $0149 = 2, 3: 8 KiB and 32 KiB
Mbc1RamSizes == {8192, 32768}

InitMbc1 ==
    /\ cart \in {NewCartridge("Mbc1", ro, ra) : ro \in Mbc1RomSizes,
                                                ra \in Mbc1RamSizes}
    /\ cartOut = NoAccess
    /\ cartridge_type = PlainType(cart.mbc)

\* the first and the last address of the two ROM windows and of the RAM
\* window
Mbc1ReadAddrs == {0, 16383, 16384, 32767, 40960, 49151}

\* the registers with the bytes written to them: RAM enable on and off, low
\* bank 0, 1, $12 and $3F, upper bits 0 to 3 and $07, mode 0, 1 and $FE, and
\* a RAM cell
Mbc1Writes ==
    ({0} \X {10, 0}) \cup ({8192} \X {0, 1, 18, 63}) \cup ({16384} \X {0, 1, 2, 3, 7})
       \cup ({24576} \X {0, 1, 254}) \cup ({40960} \X {90})

\* Bus::read of a cartridge address
Mbc1Read ==
    /\ cartOut.fail = ""
    /\ mbc1Hist.n < MaxMbc1Ops
    /\ \E address \in Mbc1ReadAddrs :
          \E r \in {cartridge_read(cart, address, 0)} :
             cartOut' = [op |-> "read", addr |-> address, value |-> 0,
                         fail |-> r.fail, val |-> r.val, n |-> cartOut.n + 1]
    /\ mbc1Hist' = [mbc1Hist EXCEPT !.n = @ + 1]
    /\ UNCHANGED <<cart, cpuVars, ppuVars, timerVars, dmaVars, hdmaVars, serialVars,
                   joypadVars, config, statOut, mbc1Rest>>

\* Bus::write of a cartridge address
Mbc1Write ==
    /\ cartOut.fail = ""
    /\ mbc1Hist.n < MaxMbc1Ops
    /\ \E w \in Mbc1Writes :
          \E r \in {cartridge_write(cart, w[1], w[2])} :
             /\ cart' = r.cart
             /\ cartOut' = [op |-> "write", addr |-> w[1], value |-> w[2],
                            fail |-> r.fail, val |-> 0, n |-> cartOut.n + 1]
             /\ mbc1Hist' =
                   [low |-> IF w[1] = 8192 THEN w[2] ELSE mbc1Hist.low,
                    upper |-> IF w[1] = 16384 THEN w[2] ELSE mbc1Hist.upper,
                    mode |-> IF w[1] = 24576 THEN w[2] ELSE mbc1Hist.mode,
                    n |-> mbc1Hist.n + 1]
    /\ UNCHANGED <<cpuVars, ppuVars, timerVars, dmaVars, hdmaVars, serialVars,
                   joypadVars, config, statOut, mbc1Rest>>

\* the registers as the writes so far leave them: L the low five bits of the
\* byte written to the low bank register, U the low two bits of the byte
\* written to the upper bits register, M bit 0 of the byte written to the
\* mode register; a register not yet written holds what it held at power-on
Mbc1L == IF mbc1Hist.low = -1 THEN cart.rom_bank ELSE mbc1Hist.low % 32
Mbc1U == IF mbc1Hist.upper = -1 THEN cart.ram_bank ELSE mbc1Hist.upper % 4
Mbc1M == IF mbc1Hist.mode = -1 THEN 0 ELSE mbc1Hist.mode % 2

\* number of banks - 1
RomMask == (cart.rom_size \div 16384) - 1
RamMask == (cart.ram_size \div 8192) - 1

Max(a, b) == IF a >= b THEN a ELSE b

\* the banks C22 names
FixedBank == IF Mbc1M = 0 THEN 0 ELSE BitAnd(Mbc1U * 32, RomMask)
SwitchedBank == BitAnd(BitOr(Mbc1U * 32, Max(Mbc1L, 1)), RomMask)
RamBank == IF Mbc1M = 0 THEN 0 ELSE BitAnd(Mbc1U, RamMask)

\* the cell of external RAM at index: the bytes written are in cart.ram
RamCell(index) == IF index \in DOMAIN cart.ram THEN cart.ram[index] ELSE 0

\* C22: with MBC1, whatever was written to its registers, a read of
\* $0000-$3FFF returns the byte of ROM bank 0 in mode 0 and of bank
\* (U<<5) AND rom-mask in mode 1, a read of $4000-$7FFF the byte of bank
\* ((U<<5) OR max(L,1)) AND rom-mask, and an access to the RAM window with
\* RAM enabled goes to RAM bank 0 in mode 0 and to bank U AND ram-mask in
\* mode 1.
C22_Mbc1Banks ==
    /\ (cartOut.op = "read" /\ cartOut.addr < 16384) =>
          /\ cartOut.fail = ""
          /\ cartOut.val = RomByte(FixedBank * 16384 + cartOut.addr)
    /\ (cartOut.op = "read" /\ cartOut.addr \in 16384..32767) =>
          /\ cartOut.fail = ""
          /\ cartOut.val = RomByte(SwitchedBank * 16384 + (cartOut.addr - 16384))
    /\ (cartOut.op = "read" /\ cartOut.addr >= 40960 /\ cart.ram_enable) =>
          /\ cartOut.fail = ""
          /\ cartOut.val = RamCell(RamBank * 8192 + (cartOut.addr - 40960))
    /\ (cartOut.op = "write" /\ cartOut.addr >= 40960 /\ cart.ram_enable) =>
          /\ cartOut.fail = ""
          /\ RamCell(RamBank * 8192 + (cartOut.addr - 40960)) = cartOut.value

\* C22 witness: in mode 1 with upper bits 3 and low bank $12 on a 2 MiB
\* cartridge, a read of $0000 has returned the first byte of bank $60
C22_Witness ==
    /\ cart.rom_size = 2097152
    /\ mbc1Hist.mode = 1 /\ mbc1Hist.upper = 3 /\ mbc1Hist.low = 18
    /\ cartOut.op = "read" /\ cartOut.addr = 0 /\ cartOut.val = 96

---------------------------------------------------------------------------
(* The RAM-enable latch of the four bank controllers (mbc1.rs 30-61,       *)
(* mbc2.rs, mbc3.rs 27-87, mbc5.rs).                                       *)

RamWindow == 40960..49151

\* the addresses at which a write reaches the RAM-enable latch
EnableRegister(c) ==
    IF c.mbc = "Mbc2" THEN {a \in 0..16383 : BitAnd(a, 256) = 0} ELSE 0..8191

\* C23: with MBC1, MBC2, MBC3 and MBC5, while the RAM-enable latch is unset
\* a read of $A000-$BFFF returns $FF and a write to it leaves the RAM as it
\* was; a write to the enable register sets the latch when the low nibble
\* of the value is $A and clears it otherwise, and nothing else changes it.
C23_RamEnableLatch ==
    [][(cart.mbc # "RomOnly" /\ cartOut'.n = cartOut.n + 1) =>
          /\ (~cart.ram_enable /\ cartOut'.op = "read" /\ cartOut'.addr \in RamWindow) =>
                cartOut'.fail = "" /\ cartOut'.val = 255
          /\ (~cart.ram_enable /\ cartOut'.op = "write" /\ cartOut'.addr \in RamWindow) =>
                cartOut'.fail = "" /\ cart'.ram = cart.ram
          /\ (cartOut'.op = "write" /\ cartOut'.addr \in EnableRegister(cart)) =>
                cart'.ram_enable = (cartOut'.value % 16 = 10)
          /\ (cartOut'.op = "read" \/ cartOut'.addr \notin EnableRegister(cart)) =>
                cart'.ram_enable = cart.ram_enable]_vars

---------------------------------------------------------------------------
(* Save data (cartridge/mod.rs 95-105, the save_data of rom_only.rs and    *)
(* mbc1.rs to mbc5.rs, rom.rs 145-147).                                    *)

NoSave == [done |-> FALSE, some |-> FALSE, data |-> <<>>]

\* Rom::have_ram
have_ram(type) == type.has_ram

\* Cartridge::save_data: Some(ram) or None
save_data(c, type) ==
    IF c.mbc = "RomOnly" THEN [done |-> TRUE, some |-> FALSE, data |-> <<>>]
    ELSE IF have_ram(type) THEN [done |-> TRUE, some |-> TRUE, data |-> c.ram]
    ELSE [done |-> TRUE, some |-> FALSE, data |-> <<>>]

\* a 32 KiB cartridge of each type code, with a header RAM size of 0 or 8 KiB
InitSave ==
    /\ cartridge_type \in {CartridgeType(code) : code \in TypeCodes}
    /\ cart \in {NewCartridge(cartridge_type.mbc, 32768, ra) : ra \in {0, 8192}}
    /\ cartOut = NoAccess

\* Context::save_data
SaveData ==
    /\ cartOut.fail = ""
    /\ saveOut' = save_data(cart, cartridge_type)
    /\ UNCHANGED <<cartVars, cpuVars, ppuVars, timerVars, dmaVars, hdmaVars,
                   serialVars, joypadVars, config, statOut, cartridge_type, saveRest>>

\* C24: save_data returns the external RAM exactly when the cartridge type
\* has both RAM and a battery, and returns nothing for every other type.
C24_SaveData ==
    saveOut.done =>
       /\ saveOut.some <=> (cartridge_type.has_ram /\ cartridge_type.has_battery)
       /\ saveOut.some => saveOut.data = cart.ram

---------------------------------------------------------------------------
(* The APU (src/src/apu.rs): the master switch, the registers of the four  *)
(* channels that decide is_on, the envelope and sweep units and the frame  *)
(* sequencer.  The fields read by output() alone (frequency timers, phase, *)
(* LFSR, wave RAM, sample counter, master volume, panning) and the audio   *)
(* buffer are left out.  The operators work on a record a with the Apu     *)
(* fields and the history:                                                 *)
(*   writes ticks runs   the accesses and machine cycles so far            *)
(*   armed[i]  pulse i was triggered with the master switch on, a live DAC *)
(*             and length enable set, and its registers and NR52 have not  *)
(*             been written since                                          *)
(*   L[i]      its length counter at that trigger, 64 for a counter of 0   *)
(*   clocks[i] the length clocks of the frame sequencer since that trigger *)
(*   gap       T-cycles since the last length clock (since construction    *)
(*             before the first), -1 when the master switch was off since  *)
(*   lastGap   the value gap had reached at the last length clock, or -1   *)

InitPulse ==
    [is_on |-> FALSE, sweep |-> 0, length_timer |-> 0, wave_duty |-> 0,
     envelope_period |-> 0, envelope_direction |-> 0, initial_volume |-> 0,
     frequency |-> 0, length_enable |-> FALSE, current_volume |-> 0,
     current_frequency |-> 0, envelope_timer |-> 0, sweep_timer |-> 0,
     sweep_enable |-> FALSE]

InitWave ==
    [is_on |-> FALSE, dac_enable |-> FALSE, length_timer |-> 0, output_level |-> 0,
     frequency |-> 0, length_enable |-> FALSE]

InitNoise ==
    [is_on |-> FALSE, length_timer |-> 0, initial_volume |-> 0, envelope_period |-> 0,
     envelope_timer |-> 0, envelope_direction |-> 0, length_enable |-> FALSE,
     current_volume |-> 0]

\* Apu::new
InitApuRegs ==
    [is_on |-> FALSE, pulse |-> <<InitPulse, InitPulse>>, wave |-> InitWave,
     noise |-> InitNoise, frame_sequencer |-> [counter |-> 0, step |-> 0]]

InitApuHist ==
    [writes |-> 0, ticks |-> 0, runs |-> 0, armed |-> <<FALSE, FALSE>>,
     L |-> <<0, 0>>, clocks |-> <<0, 0>>, gap |-> 0, lastGap |-> -1]

InitApu ==
    /\ apu = InitApuRegs
    /\ apuHist = InitApuHist

\* the fields of the bitfield Sweep
sweep_shift(sweep) == sweep % 8
sweep_direction(sweep) == (sweep \div 8) % 2
sweep_period(sweep) == (sweep \div 16) % 8

\* the DAC of a pulse or noise channel as Pulse::trigger and Noise::trigger
\* test it: EnvelopeDirection::Increase is 1
envelope_live(ch) == ch.initial_volume # 0 \/ ch.envelope_direction = 1

\* the reload of a timer whose period 0 stands for 8
period_or_8(period) == IF period = 0 THEN 8 ELSE period

\* Pulse::new_frequency
new_frequency(p) ==
    IF sweep_direction(p.sweep) = 0
    THEN p.current_frequency + (p.current_frequency \div Pow2(sweep_shift(p.sweep)))
    ELSE p.current_frequency - (p.current_frequency \div Pow2(sweep_shift(p.sweep)))

\* Pulse::trigger without the reload of a length counter of 0
pulse_trigger_no_reload(p) ==
    Bind([p EXCEPT !.is_on = envelope_live(p),
                   !.envelope_timer = period_or_8(p.envelope_period),
                   !.current_volume = p.initial_volume,
                   !.current_frequency = p.frequency,
                   !.sweep_timer = period_or_8(sweep_period(p.sweep)),
                   !.sweep_enable = (sweep_period(p.sweep) # 0
                                        \/ sweep_shift(p.sweep) # 0)],
         LAMBDA q : IF sweep_shift(q.sweep) # 0 /\ new_frequency(q) > 2047
                    THEN [q EXCEPT !.is_on = FALSE] ELSE q)

\* Pulse::trigger
pulse_trigger(p) ==
    Bind([p EXCEPT !.is_on = envelope_live(p),
                   !.length_timer = IF @ = 0 THEN 64 ELSE @,
                   !.envelope_timer = period_or_8(p.envelope_period),
                   !.current_volume = p.initial_volume,
                   !.current_frequency = p.frequency,
                   !.sweep_timer = period_or_8(sweep_period(p.sweep)),
                   !.sweep_enable = (sweep_period(p.sweep) # 0
                                        \/ sweep_shift(p.sweep) # 0)],
         LAMBDA q : IF sweep_shift(q.sweep) # 0 /\ new_frequency(q) > 2047
                    THEN [q EXCEPT !.is_on = FALSE] ELSE q)

\* Pulse::write
pulse_write(p, offset, value) ==
    CASE offset = 0 -> [p EXCEPT !.sweep = value]
      [] offset = 1 -> [p EXCEPT !.wave_duty = value \div 64,
                                 !.length_timer = 64 - (value % 64)]
      [] offset = 2 -> [p EXCEPT !.envelope_period = value % 8,
                                 !.envelope_direction = (value \div 8) % 2,
                                 !.initial_volume = value \div 16]
      [] offset = 3 -> [p EXCEPT !.frequency = BitAnd(@, 1792) + value]
      [] offset = 4 ->
           Bind([p EXCEPT !.frequency = (@ % 256) + 256 * (value % 8),
                          !.length_enable = (Bit(value, 6) = 1)],
                LAMBDA q : IF Bit(value, 7) = 1 THEN pulse_trigger(q) ELSE q)

\* Pulse::length_tick, Wave::length_tick, Noise::length_tick
length_tick(ch) ==
    Bind([ch EXCEPT !.length_timer = IF @ = 0 THEN 0 ELSE @ - 1],
         LAMBDA q : IF q.length_timer = 0 THEN [q EXCEPT !.is_on = FALSE] ELSE q)

\* Pulse::envelope_tick, Noise::envelope_tick
envelope_tick(ch) ==
    IF ch.envelope_timer > 0
    THEN IF ch.envelope_timer = 1 /\ ch.envelope_period # 0
         THEN [ch EXCEPT !.envelope_timer = ch.envelope_period,
                         !.current_volume =
                            IF ch.envelope_direction = 0
                            THEN (IF @ = 0 THEN 0 ELSE @ - 1)
                            ELSE (IF @ + 1 > 15 THEN 15 ELSE @ + 1)]
         ELSE [ch EXCEPT !.envelope_timer = @ - 1]
    ELSE ch

\* the frequency update of Pulse::sweep_tick
sweep_update(p) ==
    IF new_frequency(p) <= 2047 /\ sweep_shift(p.sweep) # 0
    THEN [p EXCEPT !.current_frequency = new_frequency(p),
                   !.frequency = new_frequency(p)]
    ELSE p

\* Pulse::sweep_tick
sweep_tick(p) ==
    IF p.sweep_timer > 0
    THEN IF p.sweep_timer = 1 /\ sweep_period(p.sweep) # 0
         THEN Bind(sweep_update([p EXCEPT !.sweep_timer = sweep_period(p.sweep)]),
                   LAMBDA q : IF new_frequency(q) > 2047
                              THEN [q EXCEPT !.is_on = FALSE] ELSE q)
         ELSE [p EXCEPT !.sweep_timer = @ - 1]
    ELSE p

\* Pulse::tick
pulse_tick(p, should_length_tick, should_volume_tick, should_sweep_tick) ==
    Bind(IF should_length_tick /\ p.length_enable THEN length_tick(p) ELSE p,
         LAMBDA q :
            Bind(IF should_volume_tick THEN envelope_tick(q) ELSE q,
                 LAMBDA r : IF should_sweep_tick THEN sweep_tick(r) ELSE r))

\* Wave::trigger
wave_trigger(w) ==
    [w EXCEPT !.is_on = w.dac_enable, !.length_timer = IF @ = 0 THEN 256 ELSE @]

\* Wave::write
wave_write(w, address, value) ==
    CASE address = 65306 -> [w EXCEPT !.dac_enable = (Bit(value, 7) = 1)]
      [] address = 65307 -> [w EXCEPT !.length_timer = 256 - value]
      [] address = 65308 -> [w EXCEPT !.output_level = (value \div 32) % 4]
      [] address = 65309 -> [w EXCEPT !.frequency = BitAnd(@, 1792) + value]
      [] address = 65310 ->
           Bind([w EXCEPT !.frequency = (@ % 256) + 256 * (value % 8),
                          !.length_enable = (Bit(value, 6) = 1)],
                LAMBDA q : IF Bit(value, 7) = 1 THEN wave_trigger(q) ELSE q)

\* Wave::tick
wave_tick(w, should_length_tick) ==
    IF w.length_enable /\ should_length_tick THEN length_tick(w) ELSE w

\* Noise::trigger
noise_trigger(n) ==
    [n EXCEPT !.is_on = envelope_live(n),
              !.length_timer = IF @ = 0 THEN 64 ELSE @,
              !.envelope_timer = period_or_8(n.envelope_period),
              !.current_volume = n.initial_volume]

\* Noise::write
noise_write(n, address, value) ==
    CASE address = 65312 -> [n EXCEPT !.length_timer = 64 - (value % 64)]
      [] address = 65313 -> [n EXCEPT !.envelope_period = value % 8,
                                      !.envelope_direction = (value \div 8) % 2,
                                      !.initial_volume = value \div 16]
      [] address = 65314 -> n
      [] address = 65315 ->
           Bind([n EXCEPT !.length_enable = (Bit(value, 6) = 1)],
                LAMBDA q : IF Bit(value, 7) = 1 THEN noise_trigger(q) ELSE q)

\* Noise::tick
noise_tick(n, should_length_tick, should_envelope_tick) ==
    Bind(IF should_length_tick /\ n.length_enable THEN length_tick(n) ELSE n,
         LAMBDA q : IF should_envelope_tick THEN envelope_tick(q) ELSE q)

\* the frame sequencer steps when its counter reaches this
FramePeriod == 8192

\* FrameSequencer::tick: the new counter and step and the three clocks
frame_sequencer_tick(fs) ==
    IF fs.counter + 1 >= FramePeriod
    THEN Bind((fs.step + 1) % 8,
              LAMBDA step : [counter |-> 0, step |-> step,
                             length |-> (step % 2 = 0), volume |-> (step = 7),
                             sweep |-> (step = 2 \/ step = 6)])
    ELSE [counter |-> fs.counter + 1, step |-> fs.step,
          length |-> FALSE, volume |-> FALSE, sweep |-> FALSE]

\* the history after a call of Apu::tick_ with the master switch on
apu_clocked(a, should_length_tick) ==
    IF should_length_tick
    THEN [a EXCEPT !.clocks = [i \in 1..2 |-> @[i] + 1], !.gap = 0,
                   !.lastGap = IF a.gap = -1 THEN -1 ELSE a.gap + 1]
    ELSE [a EXCEPT !.gap = IF @ = -1 THEN -1 ELSE @ + 1]

\* Apu::tick_
apu_tick_(a) ==
    IF a.is_on
    THEN Bind(frame_sequencer_tick(a.frame_sequencer),
              LAMBDA f :
                 apu_clocked(
                    [a EXCEPT !.frame_sequencer = [counter |-> f.counter, step |-> f.step],
                              !.pulse = <<pulse_tick(@[1], f.length, f.volume, f.sweep),
                                          pulse_tick(@[2], f.length, f.volume, FALSE)>>,
                              !.wave = wave_tick(@, f.length),
                              !.noise = noise_tick(@, f.length, f.volume)],
                    f.length))
    ELSE [a EXCEPT !.gap = -1]

\* k calls of Apu::tick_ none of which steps the frame sequencer: with the
\* master switch on each adds 1 to its counter, and none does anything else
apu_count(a, k) ==
    IF k = 0 THEN a
    ELSE IF a.is_on
    THEN [a EXCEPT !.frame_sequencer.counter = @ + k,
                   !.gap = IF @ = -1 THEN -1 ELSE @ + k]
    ELSE [a EXCEPT !.gap = -1]

\* n calls of Apu::tick_: those before the next step of the frame sequencer
\* taken together
RECURSIVE apu_ticks(_, _)
apu_ticks(a, n) ==
    IF ~a.is_on \/ a.frame_sequencer.counter + n < FramePeriod THEN apu_count(a, n)
    ELSE Bind(FramePeriod - 1 - a.frame_sequencer.counter,
              LAMBDA k : apu_ticks(apu_tick_(apu_count(a, k)), n - k - 1))

\* Apu::tick: one machine cycle
apu_tick(a, speed) == apu_ticks(a, IF speed = "Double" THEN 2 ELSE 4)

\* Apu::write
apu_write(a, address, value) ==
    CASE address \in 65296..65300 ->
           [a EXCEPT !.pulse[1] = pulse_write(@, address - 65296, value)]
      [] address \in 65302..65305 ->
           [a EXCEPT !.pulse[2] = pulse_write(@, address - 65301, value)]
      [] address \in 65306..65310 -> [a EXCEPT !.wave = wave_write(@, address, value)]
      [] address \in 65312..65315 -> [a EXCEPT !.noise = noise_write(@, address, value)]
      [] address = 65318 -> [a EXCEPT !.is_on = (Bit(value, 7) = 1)]
      [] OTHER -> a

\* Apu::read of NR52 ($FF26)
apu_read_nr52(a) ==
    (IF a.pulse[1].is_on THEN 1 ELSE 0) + (IF a.pulse[2].is_on THEN 2 ELSE 0)
       + (IF a.wave.is_on THEN 4 ELSE 0) + (IF a.noise.is_on THEN 8 ELSE 0)
       + (IF a.is_on THEN 128 ELSE 0)

ApuState == apu @@ apuHist

\* the result a of an APU operation becomes the state
ApuBecomes(a) ==
    /\ apu' = [k \in DOMAIN apu |-> a[k]]
    /\ apuHist' = [k \in DOMAIN apuHist |-> a[k]]
    /\ UNCHANGED <<cpuVars, cartVars, ppuVars, timerVars, dmaVars, hdmaVars,
                   serialVars, joypadVars, config, statOut, apuRest>>

\* the pulse channel whose registers hold address, else 0
PulseOf(address) ==
    IF address \in 65296..65300 THEN 1 ELSE IF address \in 65302..65305 THEN 2 ELSE 0

\* the write sets bit 7 of NR14 or NR24
Triggers(address, value) == address \in {65300, 65305} /\ Bit(value, 7) = 1

\* the history after Apu::write(address, value) in state a
apu_written(a, address, value) ==
    [writes |-> a.writes + 1,
     armed |-> [i \in 1..2 |->
                  IF address = 65318 THEN FALSE
                  ELSE IF PulseOf(address) = i
                  THEN /\ Triggers(address, value)
                       /\ a.is_on
                       /\ envelope_live(a.pulse[i])
                       /\ Bit(value, 6) = 1
                  ELSE a.armed[i]],
     L |-> [i \in 1..2 |->
              IF PulseOf(address) = i /\ Triggers(address, value)
              THEN (IF a.pulse[i].length_timer = 0 THEN 64 ELSE a.pulse[i].length_timer)
              ELSE a.L[i]],
     clocks |-> [i \in 1..2 |->
                   IF PulseOf(address) = i /\ Triggers(address, value) THEN 0
                   ELSE a.clocks[i]]]

\* Bus::write of an APU register
ApuWriteOf(w) ==
    ApuBecomes(apu_written(ApuState, w[1], w[2]) @@ apu_write(ApuState, w[1], w[2]))

MaxApuWrites == 3    \* register writes explored by SpecApu
MaxApuTicks == 2     \* single machine cycles explored by SpecApu and SpecLength
MaxApuRuns == 2      \* runs of RunCycles machine cycles explored by SpecApu
RunCycles == 2048    \* machine cycles the program lets pass in one run

\* NR52 on and off; NR10 with period 1 and shift 1; NRx1 with counter 1;
\* NRx2 with volume 8, with volume 0 and with volume 0 increasing; NR13;
\* NRx4 with trigger and length enable, and with trigger alone; NR30 on and
\* off; $FF15, which is no register
ApuWrites ==
    {<<65318, 128>>, <<65318, 0>>, <<65296, 17>>, <<65297, 63>>, <<65298, 128>>,
     <<65298, 0>>, <<65298, 8>>, <<65299, 255>>, <<65300, 199>>, <<65300, 128>>,
     <<65303, 128>>, <<65303, 0>>, <<65305, 192>>, <<65306, 128>>, <<65306, 0>>,
     <<65307, 255>>, <<65310, 192>>, <<65312, 63>>, <<65313, 128>>, <<65313, 0>>,
     <<65315, 192>>, <<65301, 0>>}

ApuWrite ==
    /\ apuHist.writes < MaxApuWrites
    /\ \E w \in ApuWrites : ApuWriteOf(w)

\* Inner2::apu_tick: the APU part of one machine cycle, taken alone up to
\* the end of the first MaxApuRuns runs
ApuTick ==
    /\ apuHist.ticks < MaxApuTicks
    /\ apuHist.runs <= MaxApuRuns
    /\ \E a \in {apu_tick(ApuState, current_speed(config.speed_switch))} :
          ApuBecomes([a EXCEPT !.ticks = @ + 1])

\* what cycles machine cycles without an APU access do
apu_run(a, speed, cycles) == apu_ticks(a, cycles * (IF speed = "Double" THEN 2 ELSE 4))

ApuRun ==
    /\ apuHist.runs < MaxApuRuns
    /\ \E a \in {apu_run(ApuState, current_speed(config.speed_switch), RunCycles)} :
          ApuBecomes([a EXCEPT !.runs = @ + 1])

\* the status bit of channel k (0..3) as NR52 reads
StatusBit(k) == Bit(apu_read_nr52(apu), k) = 1

\* the DAC of each channel by its registers: NRx2 for pulse and noise, bit 7
\* of NR30 for wave
DacOn(k) ==
    CASE k \in {0, 1} -> apu.pulse[k + 1].initial_volume > 0
                            \/ apu.pulse[k + 1].envelope_direction = 1
      [] k = 2 -> apu.wave.dac_enable
      [] k = 3 -> apu.noise.initial_volume > 0 \/ apu.noise.envelope_direction = 1

Channel(k) ==
    CASE k \in {0, 1} -> apu.pulse[k + 1] [] k = 2 -> apu.wave [] k = 3 -> apu.noise

\* C25: a channel whose status bit in NR52 is set has its DAC enabled by
\* its registers, and its length timer is above 0 unless length is disabled.
C25_OnImpliesDac ==
    \A k \in 0..3 :
       StatusBit(k) =>
          /\ DacOn(k)
          /\ ~Channel(k).length_enable \/ Channel(k).length_timer > 0

MaxLenWrites == 5    \* register writes explored by SpecLength
MaxLenRuns == 130    \* runs of RunCycles machine cycles explored by SpecLength
RetriggerRun == 3    \* the run after which the program of SpecLength writes again

\* NR52 on; NR10 with period 1 and shift 1; NR11 with counter 1; NR12 and
\* NR22 with volume 8; NR14 and NR24 with trigger and length enable; NR21
\* with counter 2
LenWrites ==
    {<<65318, 128>>, <<65296, 17>>, <<65297, 63>>, <<65298, 128>>, <<65300, 199>>,
     <<65302, 62>>, <<65303, 128>>, <<65305, 192>>}

\* the program sets the channels up, lets time pass, and may write again
\* after RetriggerRun runs
LenWrite ==
    /\ apuHist.writes < MaxLenWrites
    /\ apuHist.runs \in {0, RetriggerRun}
    /\ \E w \in LenWrites : ApuWriteOf(w)

\* the program waits on after RetriggerRun runs only if it has triggered a
\* channel
LenRun ==
    /\ apuHist.runs < MaxLenRuns
    /\ apuHist.runs < RetriggerRun \/ apuHist.armed[1] \/ apuHist.armed[2]
    /\ \E a \in {apu_run(ApuState, current_speed(config.speed_switch), RunCycles)} :
          ApuBecomes([a EXCEPT !.runs = @ + 1])

\* the sweep unit of pulse 1 is not in use: period 0 and shift 0
SweepIdle == sweep_period(apu.pulse[1].sweep) = 0 /\ sweep_shift(apu.pulse[1].sweep) = 0

\* C26 as stated: with the master switch on, after a pulse channel is
\* triggered with a live DAC, length enable set and length counter L (64
\* for a counter of 0), its NR52 bit reads 1 until L length clocks have
\* occurred and 0 from then on, and a length clock occurs every 16384
\* T-cycles.
C26_LengthAsStated ==
    /\ \A i \in 1..2 :
          apuHist.armed[i] =>
             (StatusBit(i - 1) <=> apuHist.clocks[i] < apuHist.L[i])
    /\ apuHist.lastGap # -1 => apuHist.lastGap = 16384

\* C26: the same for pulse 2, and for pulse 1 while its sweep unit is not
\* in use.
C26_Length ==
    /\ \A i \in 1..2 :
          (apuHist.armed[i] /\ (i = 1 => SweepIdle)) =>
             (StatusBit(i - 1) <=> apuHist.clocks[i] < apuHist.L[i])
    /\ apuHist.lastGap # -1 => apuHist.lastGap = 16384

\* C26 witness: pulse 1 was triggered with a counter of 0 and has been
\* turned off by the 64th length clock since
C26_Witness ==
    /\ apuHist.armed[1] /\ SweepIdle
    /\ apuHist.L[1] = 64 /\ apuHist.clocks[1] = 64
    /\ ~StatusBit(0)
    /\ apuHist.lastGap = 16384

---------------------------------------------------------------------------
(* The PPU dot by dot (ppu.rs 196-253).                                    *)

MaxDotFrames == 2    \* values of the frame counter explored by SpecDots

\* Ppu::tick_pixel: one dot
PpuDot ==
    /\ ppu.frame < MaxDotFrames
    /\ \E p \in {tick_pixel(ppu @@ ppuHist @@ [iflag |-> intr.interrupt_flag])} :
          PpuBecomes(p)

\* the mode C30 gives for a dot
ModeOf(ly, lx) ==
    IF ly \in 144..153 THEN "VBlank"
    ELSE IF lx \in 0..79 THEN "OamSearch"
    ELSE IF lx \in 80..251 THEN "DataTransfer"
    ELSE "HBlank"

\* C30: after every dot with the LCD enabled LX is in 0..455, LY in 0..153
\* and the mode is OAM-search, Data-transfer or HBlank by LX on the lines
\* 0..143 and VBlank on the lines 144..153; and on a visible line the
\* scanline has been rendered once when LX has reached 80 and not before.
C30_ModeOfDot ==
    (ppuHist.afterDot /\ lcd_enable(ppu)) =>
       /\ ppu.lx \in 0..455
       /\ ppu.ly \in 0..153
       /\ ppu.mode = ModeOf(ppu.ly, ppu.lx)
       /\ (ppuHist.lineOn /\ ppu.ly < 144) =>
             ppuHist.renders = (IF ppu.lx >= 80 THEN 1 ELSE 0)

\* C30 witness: the dot that enters Data-transfer on line 1, with the LCD
\* on since the line began and the line rendered by that dot
C30_Witness ==
    /\ ppuHist.afterDot /\ lcd_enable(ppu) /\ ppuHist.lineOn
    /\ ppu.ly = 1 /\ ppu.lx = 80
    /\ ppu.mode = "DataTransfer"
    /\ ppuHist.renders = 1

---------------------------------------------------------------------------
(* The LCD-STAT interrupt (ppu.rs 196-211, 481-495), dot by dot.  statHist *)
(* holds, for the last dot:                                                *)
(*   line   the OR of the four sources after it, FALSE with the LCD off    *)
(*   was    the value of line before it                                    *)
(*   clear  the LCD-STAT bit of IF was clear before it                     *)
(*   on     the LCD was enabled at it                                      *)
(*   fresh  nothing was written since it                                   *)
(*   n      the writes to $FF41 and $FF45 so far                           *)

MaxIrqDots   == 300  \* dots of a frame explored by SpecStatIrq: a line and a bit
MaxIrqFrames == 3    \* values of the frame counter explored by SpecStatIrq
MaxIrqWrites == 1    \* writes to $FF41 and $FF45 explored by SpecStatIrq

InitStatHist ==
    [line |-> FALSE, was |-> FALSE, clear |-> FALSE, on |-> FALSE,
     fresh |-> FALSE, n |-> 0]

\* the four sources of C31, each gated by its enable bit of STAT
Sources(p) ==
    \/ p.mode = "HBlank" /\ Bit(p.stat, 3) = 1
    \/ p.mode = "VBlank" /\ Bit(p.stat, 4) = 1
    \/ p.mode = "OamSearch" /\ Bit(p.stat, 5) = 1
    \/ p.ly = p.lyc /\ Bit(p.stat, 6) = 1

\* the result p of a PPU operation becomes the state, with the history h
StatBecomes(p, h) ==
    /\ ppu' = [k \in DOMAIN ppu |-> p[k]]
    /\ ppuHist' = [k \in DOMAIN ppuHist |-> p[k]]
    /\ intr' = [intr EXCEPT !.interrupt_flag = p.iflag]
    /\ statHist' = h
    /\ UNCHANGED <<cpu, crash, checks, last, steps, cartVars, timerVars, dmaVars,
                   hdmaVars, serialVars, joypadVars, config, statOut, statRest>>

\* Ppu::tick_pixel: one dot
StatDot ==
    /\ ppuHist.dots < MaxIrqDots
    /\ \E p \in {tick_pixel(ppu @@ ppuHist @@ [iflag |-> intr.interrupt_flag])} :
          StatBecomes(p, [statHist EXCEPT
                             !.line = lcd_enable(p) /\ Sources(p),
                             !.was = statHist.line,
                             !.clear = Bit(intr.interrupt_flag, 1) = 0,
                             !.on = lcd_enable(p),
                             !.fresh = TRUE])

\* a CPU write to $FF40
StatWriteLcdc ==
    /\ ppu.frame < MaxIrqFrames
    /\ \E value \in LcdcValues :
          \E p \in {ppu_write_lcdc(ppu @@ ppuHist @@ [iflag |-> intr.interrupt_flag],
                                   value)} :
             StatBecomes(p, [statHist EXCEPT !.fresh = FALSE])

\* the enable bits written to STAT: one source each, HBlank with OAM-search,
\* all four
IrqStatValues == {8, 16, 32, 64, 40, 120}

\* a CPU write to $FF41 or $FF45
StatWriteEnable ==
    /\ statHist.n < MaxIrqWrites
    /\ \E address \in StatAddrs :
       \E value \in (IF address = 65345 THEN IrqStatValues ELSE {1}) :
          \E p \in {ppu_write_stat(ppu @@ ppuHist @@ [iflag |-> intr.interrupt_flag],
                                   address, value)} :
             StatBecomes(p, [statHist EXCEPT !.fresh = FALSE, !.n = @ + 1])

\* the CPU acknowledges the LCD-STAT interrupt (interrupt.rs 38-40)
StatAck ==
    /\ Bit(intr.interrupt_flag, 1) = 1
    /\ intr' = [intr EXCEPT !.interrupt_flag = SetBit(@, 1, FALSE)]
    /\ statHist' = [statHist EXCEPT !.fresh = FALSE]
    /\ UNCHANGED <<cpu, crash, checks, last, steps, cartVars, ppuVars, timerVars,
                   dmaVars, hdmaVars, serialVars, joypadVars, config, statOut,
                   statRest>>

\* C31: a dot with the LCD enabled sets the LCD-STAT bit of IF exactly when
\* the OR of the four sources (HBlank, VBlank and OAM-search mode and
\* LY = LYC, each gated by its enable bit of STAT) is true after the dot and
\* was false after the dot before it.
C31_StatEdge ==
    (statHist.fresh /\ statHist.on /\ statHist.clear) =>
       (Bit(intr.interrupt_flag, 1) = 1 <=> (~statHist.was /\ statHist.line))

---------------------------------------------------------------------------
(* The RAM of MBC2 (cartridge/mbc/mbc2.rs 20-56).  mbc2Hist holds the      *)
(* nibble last written, with the RAM enabled, to each cell: to each value  *)
(* of the low 9 address bits.                                              *)

MaxMbc2Ops == 4      \* bus accesses to the cartridge explored by SpecMbc2

InitMbc2Hist == [cells |-> <<>>, n |-> 0]

\* a 64 KiB MBC2 cartridge
InitMbc2 ==
    /\ cart = NewCartridge("Mbc2", 65536, 0)
    /\ cartOut = NoAccess
    /\ cartridge_type = PlainType(cart.mbc)

\* $A000-$A003 and $A1FF, and $A200, which has the low 9 bits of $A000
Mbc2RamAddrs == {40960, 40961, 40962, 40963, 41471, 41472}
\* the RAM-enable register with $0A and $00, and the RAM with $F1 and $03
Mbc2Writes ==
    {<<0, 10>>, <<0, 0>>} \cup {<<a, v>> : a \in Mbc2RamAddrs, v \in {241, 3}}

\* the cell of an address: its low 9 bits
Cell(address) == address % 512

\* Bus::write of an address of the enable register or the RAM window
Mbc2Write ==
    /\ cartOut.fail = ""
    /\ mbc2Hist.n < MaxMbc2Ops
    /\ \E w \in Mbc2Writes :
          \E r \in {mbc2_write(cart, w[1], w[2])} :
             /\ cart' = r.cart
             /\ cartOut' = [op |-> "write", addr |-> w[1], value |-> w[2],
                            fail |-> r.fail, val |-> 0, n |-> cartOut.n + 1]
             /\ mbc2Hist' =
                   [cells |-> IF w[1] >= 40960 /\ cart.ram_enable
                              THEN [k \in DOMAIN mbc2Hist.cells \cup {Cell(w[1])} |->
                                       IF k = Cell(w[1]) THEN w[2] % 16
                                       ELSE mbc2Hist.cells[k]]
                              ELSE mbc2Hist.cells,
                    n |-> mbc2Hist.n + 1]
    /\ UNCHANGED <<cpuVars, ppuVars, timerVars, dmaVars, hdmaVars, serialVars,
                   joypadVars, config, statOut, mbc2Rest>>

\* Bus::read of an address in $A000-$A1FF
Mbc2Read ==
    /\ cartOut.fail = ""
    /\ mbc2Hist.n < MaxMbc2Ops
    /\ \E address \in Mbc2RamAddrs \cap 40960..41471 :
          \E r \in {mbc2_read(cart, address)} :
             cartOut' = [op |-> "read", addr |-> address, value |-> 0,
                         fail |-> r.fail, val |-> r.val, n |-> cartOut.n + 1]
    /\ mbc2Hist' = [mbc2Hist EXCEPT !.n = @ + 1]
    /\ UNCHANGED <<cart, cpuVars, ppuVars, timerVars, dmaVars, hdmaVars, serialVars,
                   joypadVars, config, statOut, mbc2Rest>>

\* C32: with the RAM enabled, a read of an address in $A000-$A1FF whose
\* cell (the low 9 address bits) has been written returns in its low nibble
\* the low nibble of the value last written to that cell: writes to other
\* cells in between have not changed it.
C32_Mbc2Cells ==
    (/\ cartOut.op = "read" /\ cartOut.fail = "" /\ cart.ram_enable
     /\ Cell(cartOut.addr) \in DOMAIN mbc2Hist.cells) =>
       cartOut.val % 16 = mbc2Hist.cells[Cell(cartOut.addr)]

---------------------------------------------------------------------------
(* The mixer of the APU (apu.rs 97-104, 143-170, 625-632).  mixer holds    *)
(*   master_volume  the byte of NR50                                       *)
(*   panning        NR51 as Apu::write stores it: panning[i][j] is bit     *)
(*                  4 i + j, written here as the byte                      *)
(*   ch             the values the four output() calls returned for the    *)
(*                  last sample, in the order pulse 1, pulse 2, wave,      *)
(*                  noise: the waveform position, wave RAM and LFSR that   *)
(*                  decide them are inputs of MixSample                    *)
(*   out            the pair mix_output returned for it                    *)
(*   n              the writes and samples so far                          *)

MaxMixOps == 4       \* register writes and samples explored by SpecMix

InitMixer ==
    [master_volume |-> 0, panning |-> 0, ch |-> <<0, 0, 0, 0>>, out |-> <<0, 0>>,
     op |-> "", n |-> 0]

\* the fields of the bitfield MasterVolume
right_volume(m) == m.master_volume % 8
left_volume(m) == (m.master_volume \div 16) % 8

\* Apu::write of NR50 ($FF24) and NR51 ($FF25)
mixer_write(m, address, value) ==
    CASE address = 65316 -> [m EXCEPT !.master_volume = value]
      [] address = 65317 -> [m EXCEPT !.panning = value]
      [] OTHER -> m

\* the sum of the channel outputs ch whose bit, counted from bit base, is
\* set in pan
RECURSIVE PanSum(_, _, _, _)
PanSum(pan, base, ch, j) ==
    IF j = 0 THEN 0
    ELSE (IF Bit(pan, base + j - 1) = 1 THEN ch[j] ELSE 0) + PanSum(pan, base, ch, j - 1)

\* x >> 3 of an i32: the floor of x / 8
Shr3(x) == IF x >= 0 THEN x \div 8 ELSE -((-x + 7) \div 8)

\* Apu::mix_output, given the outputs of the channels
mix_output(m, is_on, ch) ==
    IF ~is_on THEN <<0, 0>>
    ELSE <<Shr3(PanSum(m.panning, 0, ch, 4) * left_volume(m)),
           Shr3(PanSum(m.panning, 4, ch, 4) * right_volume(m))>>

\* NR52 on and off; NR50 with left volume 7 and right volume 1, and the
\* reverse; NR51 with pulse 1 on the left, with pulse 1 on the right, and
\* with pulse 2 and noise on the left and wave on the right
MixWrites ==
    {<<65318, 128>>, <<65318, 0>>, <<65316, 113>>, <<65316, 23>>,
     <<65317, 16>>, <<65317, 1>>, <<65317, 164>>}

\* Bus::write of NR50, NR51 or NR52
MixWrite ==
    /\ mixer.n < MaxMixOps
    /\ \E w \in MixWrites :
          /\ apu' = [k \in DOMAIN apu |-> apu_write(ApuState, w[1], w[2])[k]]
          /\ mixer' = [mixer_write(mixer, w[1], w[2]) EXCEPT !.op = "write", !.n = @ + 1]
    /\ UNCHANGED <<cpuVars, cartVars, ppuVars, timerVars, dmaVars, hdmaVars,
                   serialVars, joypadVars, config, statOut, apuHist, mixRest>>

\* what the channels put out: a pulse channel of volume v gives 256 v or
\* -256 v, the wave channel 64 (2 s - 15) times its level for the sample s,
\* the noise channel 256 v or -256 v, and a channel that is off gives 0
ChannelOutputs ==
    {<<256, 512, 960, 2048>>, <<-256, 512, -960, 2048>>, <<3840, 0, 0, -3840>>}

\* the sample Apu::tick_ takes when sample_counter passes CYCLES_PER_FRAME
MixSample ==
    /\ mixer.n < MaxMixOps
    /\ \E ch \in ChannelOutputs :
          mixer' = [mixer EXCEPT !.ch = ch, !.out = mix_output(mixer, apu.is_on, ch),
                                 !.op = "sample", !.n = @ + 1]
    /\ UNCHANGED <<cpuVars, cartVars, ppuVars, timerVars, dmaVars, hdmaVars,
                   serialVars, joypadVars, config, statOut, apuVars, mixRest>>

\* C33: a sample mixed with the master switch off is (0, 0); otherwise one
\* output is the sum of the channels selected by NR51 bits 4-7 scaled by
\* the left volume (NR50 bits 4-6) and the other the sum of the channels
\* selected by NR51 bits 0-3 scaled by the right volume (NR50 bits 0-2),
\* where scaling by v is multiplying by v / 8.
C33_MixSides ==
    mixer.op = "sample" =>
       IF ~apu.is_on THEN mixer.out = <<0, 0>>
       ELSE \E l \in {Shr3(PanSum(mixer.panning, 4, mixer.ch, 4) * left_volume(mixer))} :
            \E r \in {Shr3(PanSum(mixer.panning, 0, mixer.ch, 4) * right_volume(mixer))} :
               mixer.out \in {<<l, r>>, <<r, l>>}

---------------------------------------------------------------------------
(* The frequency timer of the noise channel (apu.rs 473, 525-529, 540-567).*)
(* noiseTimer holds the Noise fields clock_shift, divisor_code and         *)
(* frequency_timer, and the history:                                       *)
(*   since   calls of Noise::tick since the trigger or the last shift of   *)
(*           the LFSR                                                      *)
(*   period  the value of since at the last shift, -1 before the first     *)
(*   fresh   NR43 has not been written since the trigger                   *)
(*   writes runs   the register writes and the runs of ticks so far        *)

MaxLfsrWrites == 3   \* register writes explored by SpecLfsr
MaxLfsrRuns   == 2   \* shifts of the LFSR explored by SpecLfsr

InitNoiseTimer ==
    [clock_shift |-> 0, divisor_code |-> 0, frequency_timer |-> 0,
     since |-> 0, period |-> -1, fresh |-> FALSE, writes |-> 0, runs |-> 0]

\* static DIVISOR
DIVISOR == <<8, 16, 32, 48, 64, 80, 96, 112>>

\* DIVISOR[divisor_code] << (clock_shift + 1) on a u16: the bits shifted out
\* are lost; a shift by 16 panics when overflow is checked and is a shift
\* by 16 mod 16 when it is not
timer_reload(t, checked) ==
    IF t.clock_shift + 1 >= 16
    THEN IF checked THEN [fail |-> "attempt to shift left with overflow", val |-> 0]
         ELSE [fail |-> "",
               val |-> (DIVISOR[t.divisor_code + 1] * Pow2((t.clock_shift + 1) % 16)) % 65536]
    ELSE [fail |-> "",
          val |-> (DIVISOR[t.divisor_code + 1] * Pow2(t.clock_shift + 1)) % 65536]

\* Noise::write of NR43 and NR44, for the timer
noise_timer_write(t, address, value, checked) ==
    CASE address = 65314 ->
           [fail |-> "",
            timer |-> [t EXCEPT !.divisor_code = value % 8, !.clock_shift = value \div 16,
                                !.fresh = FALSE]]
      [] address = 65315 /\ Bit(value, 7) = 1 ->
           Bind(timer_reload(t, checked), LAMBDA r :
              [fail |-> r.fail,
               timer |-> IF r.fail # "" THEN t
                         ELSE [t EXCEPT !.frequency_timer = r.val, !.since = 0,
                                        !.period = -1, !.fresh = TRUE]])
      [] OTHER -> [fail |-> "", timer |-> t]

\* Noise::tick, for the timer: the LFSR is shifted when the timer is 0
\* after the saturating decrement
noise_timer_tick(t, checked) ==
    IF Max(t.frequency_timer - 1, 0) = 0
    THEN Bind(timer_reload(t, checked), LAMBDA r :
            [fail |-> r.fail,
             timer |-> IF r.fail # "" THEN t
                       ELSE [t EXCEPT !.frequency_timer = r.val, !.since = 0,
                                      !.period = t.since + 1]])
    ELSE [fail |-> "",
          timer |-> [t EXCEPT !.frequency_timer = @ - 1, !.since = @ + 1]]

\* k calls of Noise::tick none of which brings the timer to 0
noise_timer_count(t, k) == [t EXCEPT !.frequency_timer = @ - k, !.since = @ + k]

\* NR52 on; NR43 with every clock shift and divisor code; NR44 with trigger
LfsrWrites ==
    {<<65318, 128>>, <<65315, 128>>}
       \cup {<<65314, 16 * shift + code>> : shift \in 0..15, code \in 0..7}

\* Bus::write of an APU register
LfsrWrite ==
    /\ crash = ""
    /\ noiseTimer.writes < MaxLfsrWrites
    /\ \E w \in LfsrWrites :
          \E r \in {noise_timer_write(noiseTimer, w[1], w[2], checks)} :
             /\ noiseTimer' = [r.timer EXCEPT !.writes = @ + 1]
             /\ crash' = r.fail
             /\ apu' = [k \in DOMAIN apu |-> apu_write(ApuState, w[1], w[2])[k]]
    /\ UNCHANGED <<cpu, intr, checks, last, steps, cartVars, ppuVars, timerVars,
                   dmaVars, hdmaVars, serialVars, joypadVars, config, statOut,
                   apuHist, noiseRest>>

\* the calls of Apu::tick_ up to the next shift of the LFSR, with the
\* master switch on: those before it only count down
LfsrRun ==
    /\ crash = ""
    /\ apu.is_on
    /\ noiseTimer.runs < MaxLfsrRuns
    /\ \E k \in {Max(noiseTimer.frequency_timer - 1, 0)} :
          \E r \in {noise_timer_tick(noise_timer_count(noiseTimer, k), checks)} :
             /\ noiseTimer' = [r.timer EXCEPT !.runs = @ + 1]
             /\ crash' = r.fail
             /\ \E a \in {apu_ticks(ApuState, k + 1)} :
                   /\ apu' = [f \in DOMAIN apu |-> a[f]]
                   /\ apuHist' = [f \in DOMAIN apuHist |-> a[f]]
    /\ UNCHANGED <<cpu, intr, checks, last, steps, cartVars, ppuVars, timerVars,
                   dmaVars, hdmaVars, serialVars, joypadVars, config, statOut,
                   noiseRest>>

\* C34: no write to the noise registers and no tick fails; and with any
\* divisor code and clock shift in NR43 at the trigger, the LFSR is shifted
\* divisor[code] * 2^(shift+1) T-cycles after the trigger and every so
\* many T-cycles after that.
C34_NoisePeriod ==
    /\ crash = ""
    /\ (noiseTimer.fresh /\ noiseTimer.period # -1) =>
          noiseTimer.period =
             DIVISOR[noiseTimer.divisor_code + 1] * Pow2(noiseTimer.clock_shift + 1)

---------------------------------------------------------------------------
(* Sprites on a scanline (ppu.rs 53-62, 255-259, 378-479).  scan holds     *)
(*   oam        the first MaxObjs entries of OAM, each with the bytes y, x  *)
(*              and flags and, as row, the colour IDs of the eight pixels  *)
(*              of its tile row on the line, left to right as stored in    *)
(*              VRAM; the other entries are 0 as Ppu::new leaves them and  *)
(*              are on no line                                             *)
(*   line_info  for each column the layer and colour ID of the pixel and,  *)
(*              as history, obj: the OAM entry that wrote it, 0 for the    *)
(*              background                                                 *)
(*   op n       the last operation and the number of operations            *)
(* The sprites are 8 pixels high (LCDC bit 2 clear).                       *)

MaxObjs   == 3       \* entries of OAM written by SpecObj
MaxObjOps == 4       \* writes and scanlines explored by SpecObj
ScreenWidth == 160
MaxObjPerLine == 10

\* scan_line_obj_x as Ppu::new fills it: no code changes it
ScanLineObjX == 255

NoObj == [y |-> 0, x |-> 0, flags |-> 0, row |-> <<0, 0, 0, 0, 0, 0, 0, 0>>]

InitScan ==
    [oam |-> [i \in 1..MaxObjs |-> NoObj],
     line_info |-> [c \in 0..(ScreenWidth - 1) |-> [layer |-> "", color_id |-> 0, obj |-> 0]],
     op |-> "", n |-> 0]

\* the fields of ObjAttr in the flags byte
x_flip(o) == Bit(o.flags, 5) = 1
bg_window_priority_is_high(o) == Bit(o.flags, 7) = 1

\* the range test of render_obj: the sprite covers line ly
on_line(o, ly) ==
    LET upper_y == (o.y - 16) % 256
    IN IF upper_y + 8 <= 255 THEN ly \in upper_y..(upper_y + 7) ELSE FALSE

\* Ppu::render_background with every pixel of the line of colour ID bg
render_background(bg) ==
    [c \in 0..(ScreenWidth - 1) |-> [layer |-> "bg", color_id |-> bg, obj |-> 0]]

\* the body of the loop over offset_x in render_obj, for OAM entry i
obj_pixel(line, o, i, offset_x) ==
    LET screen_x == (o.x - 8 + offset_x) % 256
        pixel_x == IF x_flip(o) THEN 7 - offset_x ELSE offset_x
    IN IF screen_x >= ScreenWidth THEN line
       ELSE IF bg_window_priority_is_high(o) /\ line[screen_x].color_id # 0 THEN line
       ELSE IF o.x >= ScanLineObjX THEN line
       ELSE IF o.row[pixel_x + 1] = 0 THEN line
       ELSE [line EXCEPT ![screen_x] =
                [layer |-> "obj", color_id |-> o.row[pixel_x + 1], obj |-> i]]

RECURSIVE obj_pixels(_, _, _, _)
obj_pixels(line, o, i, offset_x) ==
    IF offset_x = 8 THEN line
    ELSE obj_pixels(obj_pixel(line, o, i, offset_x), o, i, offset_x + 1)

\* Ppu::render_obj from OAM entry i on, count sprites selected so far
RECURSIVE render_obj(_, _, _, _, _)
render_obj(oam, line, ly, i, count) ==
    IF i > MaxObjs THEN line
    ELSE IF ~on_line(oam[i], ly) THEN render_obj(oam, line, ly, i + 1, count)
    ELSE IF count + 1 > MaxObjPerLine THEN line
    ELSE render_obj(oam, obj_pixels(line, oam[i], i, 0), ly, i + 1, count + 1)

\* LCDC bit 1
obj_enable(p) == Bit(p.lcdc, 1) = 1

\* Ppu::render_scanline up to the frame buffer
scan_line(p, oam, bg) ==
    IF obj_enable(p) THEN render_obj(oam, render_background(bg), p.ly, 1, 0)
    ELSE render_background(bg)

\* sprites at the top of the screen, at columns 0 and 2, above or behind the
\* background, with a full row and with a row whose left half is clear
ObjAttrs ==
    {[y |-> 16, x |-> x, flags |-> f, row |-> r] :
        x \in {8, 10}, f \in {0, 128},
        r \in {<<1, 1, 1, 1, 1, 1, 1, 1>>, <<0, 0, 0, 0, 2, 2, 2, 2>>}}

\* CPU writes to the four bytes of an OAM entry, and to its tile in VRAM
ObjWrite ==
    /\ scan.n < MaxObjOps
    /\ \E i \in 1..MaxObjs, o \in ObjAttrs :
          scan' = [scan EXCEPT !.oam[i] = o, !.op = "write", !.n = @ + 1]
    /\ UNCHANGED <<cpuVars, cartVars, ppuVars, timerVars, dmaVars, hdmaVars,
                   serialVars, joypadVars, config, statOut, device_mode, scanRest>>

\* LCD on, with sprites and without
ObjLcdcValues == {130, 128}

\* a CPU write to $FF40
ObjWriteLcdc ==
    /\ scan.n < MaxObjOps
    /\ \E value \in ObjLcdcValues :
          \E p \in {ppu_write_lcdc(ppu @@ ppuHist @@ [iflag |-> intr.interrupt_flag],
                                   value)} :
             /\ ppu' = [k \in DOMAIN ppu |-> p[k]]
             /\ ppuHist' = [k \in DOMAIN ppuHist |-> p[k]]
    /\ scan' = [scan EXCEPT !.op = "lcdc", !.n = @ + 1]
    /\ UNCHANGED <<cpuVars, cartVars, timerVars, dmaVars, hdmaVars,
                   serialVars, joypadVars, config, statOut, device_mode, scanRest>>

\* the colour ID of the background pixels of the line
BgIds == {0, 1}

\* Ppu::render_scanline for the line LY
ObjRender ==
    /\ scan.n < MaxObjOps
    /\ \E bg \in BgIds :
          scan' = [scan EXCEPT !.line_info = scan_line(ppu, scan.oam, bg),
                               !.op = "render", !.n = @ + 1]
    /\ UNCHANGED <<cpuVars, cartVars, ppuVars, timerVars, dmaVars, hdmaVars,
                   serialVars, joypadVars, config, statOut, device_mode, scanRest>>

\* the sprites with an opaque pixel at column c of line ly
OpaqueAt(c, ly) ==
    {i \in 1..MaxObjs :
        /\ on_line(scan.oam[i], ly)
        /\ \E offset_x \in 0..7 :
              /\ (scan.oam[i].x - 8 + offset_x) % 256 = c
              /\ scan.oam[i].row[(IF x_flip(scan.oam[i]) THEN 7 - offset_x
                                  ELSE offset_x) + 1] # 0}

\* the sprite of S that C35 puts in front
Front(S) ==
    IF device_mode = "GameBoy"
    THEN CHOOSE i \in S : \A j \in S :
            \/ scan.oam[i].x < scan.oam[j].x
            \/ (scan.oam[i].x = scan.oam[j].x /\ i <= j)
    ELSE CHOOSE i \in S : \A j \in S : i <= j

\* C35: on a scanline rendered with sprites enabled, at a column where two
\* or more sprites of the line, none of them behind the background, have
\* an opaque pixel, the pixel shown is that of the sprite with the smallest
\* X, the earliest in OAM among equals, on a Game Boy, and that of the
\* earliest in OAM on a Game Boy Color.
C35_ObjOrder ==
    (scan.op = "render" /\ obj_enable(ppu)) =>
       \A c \in 0..(ScreenWidth - 1) :
          (/\ Cardinality(OpaqueAt(c, ppu.ly)) >= 2
           /\ \A i \in OpaqueAt(c, ppu.ly) : ~bg_window_priority_is_high(scan.oam[i]))
             => scan.line_info[c].obj = Front(OpaqueAt(c, ppu.ly))

---------------------------------------------------------------------------
(* The two enable flags of the VRAM DMA (bus.rs 285-286, 368-378), over    *)
(* the VRAM DMA actions.                                                   *)

\* C36: whatever is written to $FF55 and whenever, the HBlank and the
\* general-purpose enable flags are never both set and the assertion at
\* the start of process_hdma never fails.
C36_OneTransfer ==
    /\ ~(hdma.enable_gdma /\ hdma.enable_hdma)
    /\ crash = ""

---------------------------------------------------------------------------
(* The prescaler of TIMA (timer.rs 42-53, 68-96), over the timer actions.  *)

\* C37: in every reachable state of the timer tima_counter is strictly
\* less than the threshold of the current clock select, whatever is written
\* to TAC and whenever; and while the timer is enabled, TIMA is incremented
\* less than one threshold of machine cycles after the last write to TAC.
C37_Prescaler ==
    /\ timer.tima_counter < tac_threshold(timer.tac)
    /\ (timer.tima_enable /\ ~timerHist.fromInc) =>
          timerHist.quiet < tac_threshold(timer.tac)

---------------------------------------------------------------------------
(* MBC1 before the upper bits register is written (mbc1.rs 25-29, 76-108), *)
(* over the MBC1 actions.                                                  *)

\* the low bank register while the upper bits register is untouched: 1 from
\* the constructor, or the byte written to $2000-$3FFF when it is in 1..31
Mbc1FirstLow ==
    IF mbc1Hist.low = -1 THEN {1} ELSE {mbc1Hist.low} \cap (1..31)

\* C38: on an MBC1 cartridge of any ROM size, as long as nothing was written
\* to $4000-$5FFF, a read of $4000-$7FFF returns the byte of ROM bank 1
\* right after construction, and of bank (n AND rom-mask) after n in 1..31
\* was written to $2000-$3FFF: the upper bits register contributes nothing.
C38_FirstBank ==
    (cartOut.op = "read" /\ cartOut.addr \in 16384..32767 /\ mbc1Hist.upper = -1) =>
       \A n \in Mbc1FirstLow :
          /\ cartOut.fail = ""
          /\ cartOut.val = RomByte(BitAnd(n, RomMask) * 16384 + (cartOut.addr - 16384))

---------------------------------------------------------------------------
(* The window line counter (ppu.rs 286-303, 373-375), line by line.  win   *)
(* holds the Ppu fields window_y, window_x and window_line_counter, and    *)
(* the history of the current frame:                                       *)
(*   frame  the frame counter at the last render_background                *)
(*   drawn  the lines on which the window was drawn since it changed       *)
(*   shown  the last render_background drew the window                     *)
(*   n      the CPU writes so far                                          *)
(* The pixels are not modelled: of render_background only what reads and   *)
(* writes the counter.                                                     *)

MaxWinFrames == 3    \* values of the frame counter explored by SpecWin
MaxWinWrites == 3    \* CPU writes explored by SpecWin

\* the machine cycles of a line: 456 dots (ppu.rs 219), 4 a cycle (ppu.rs 188)
LineCycles == 456 \div 4

InitWin ==
    [window_y |-> 0, window_x |-> 0, window_line_counter |-> 0,
     frame |-> 0, drawn |-> 0, shown |-> FALSE, n |-> 0]

window_enable(p) == Bit(p.lcdc, 5) = 1

\* render_window is true for some x of the line
increment_window_line_counter(w, p) ==
    /\ window_enable(p)
    /\ w.window_y <= p.ly
    /\ \E x \in 0..159 : w.window_x <= x + 7

\* history: the lines of the frame counted from its first render
win_frame(w, p) ==
    IF w.frame = p.frame THEN w ELSE [w EXCEPT !.frame = p.frame, !.drawn = 0]

\* Ppu::render_background on the counter; w carries fail, the panic of the
\* increment of a u8 where the build checks it
window_line(w, p, checked) ==
    LET w1 == [win_frame(w, p) EXCEPT
                  !.window_line_counter = IF p.ly = w.window_y THEN 0 ELSE @]
    IN IF ~increment_window_line_counter(w, p) THEN [w1 EXCEPT !.shown = FALSE]
       ELSE IF w1.window_line_counter = 255 /\ checked
       THEN [w1 EXCEPT !.fail = "attempt to add with overflow"]
       ELSE [w1 EXCEPT !.window_line_counter = (@ + 1) % 256, !.drawn = @ + 1,
                       !.shown = TRUE]

\* Ppu::tick with the scanline it renders: s.p is the PPU, s.w the window
win_tick(s, checked) ==
    Bind(ppu_tick(s.p), LAMBDA p :
       [p |-> p,
        w |-> IF p.renders > s.p.renders /\ s.w.fail = ""
              THEN window_line(s.w, p, checked) ELSE s.w])

\* k machine cycles, the first half and then the rest
RECURSIVE win_ticks(_, _, _)
win_ticks(s, checked, k) ==
    IF k = 0 THEN s
    ELSE IF k = 1 THEN win_tick(s, checked)
    ELSE Bind(win_ticks(s, checked, k \div 2),
              LAMBDA r : win_ticks(r, checked, k - (k \div 2)))

\* the result s of a PPU operation becomes the state
WinBecomes(s) ==
    /\ ppu' = [k \in DOMAIN ppu |-> s.p[k]]
    /\ ppuHist' = [k \in DOMAIN ppuHist |-> s.p[k]]
    /\ intr' = [intr EXCEPT !.interrupt_flag = s.p.iflag]
    /\ win' = [k \in DOMAIN win |-> s.w[k]]
    /\ crash' = s.w.fail
    /\ UNCHANGED <<cpu, checks, last, steps, cartVars, timerVars, dmaVars,
                   hdmaVars, serialVars, joypadVars, config, statOut, winRest>>

WinState ==
    [p |-> ppu @@ ppuHist @@ [iflag |-> intr.interrupt_flag],
     w |-> win @@ [fail |-> crash]]

\* Inner1::ppu_tick for the machine cycles of one line
WinLine ==
    /\ crash = ""
    /\ ppu.frame < MaxWinFrames
    /\ \E s \in {win_ticks(WinState, checks, LineCycles)} : WinBecomes(s)

\* the lines at whose first dot SpecWin writes
WinWriteLines == {0, 1}

\* LCDC with the LCD and the window on, and WY and WX with the window on
\* the screen and off it
WinWrites == {<<65344, 160>>, <<65354, 0>>, <<65354, 200>>, <<65355, 167>>}

\* Ppu::write of $FF40, $FF4A, $FF4B
win_write(s, address, value) ==
    CASE address = 65344 -> [s EXCEPT !.p = ppu_write_lcdc(s.p, value)]
      [] address = 65354 -> [s EXCEPT !.w.window_y = value]
      [] address = 65355 -> [s EXCEPT !.w.window_x = value]

\* a CPU write to LCDC, WY or WX
WinWrite ==
    /\ crash = ""
    /\ win.n < MaxWinWrites
    /\ ppu.ly \in WinWriteLines
    /\ \E wr \in WinWrites :
          \E s \in {win_write(WinState, wr[1], wr[2])} :
             WinBecomes([s EXCEPT !.w.n = @ + 1])

\* C39: whatever is written to WY, WX and LCDC and whenever, on a line that
\* shows the window the line counter does not exceed the number of lines
\* of the current frame on which the window was drawn, so it is at most 144,
\* and its increment never overflows.
C39_WindowLines ==
    /\ crash = ""
    /\ win.shown =>
          (win.window_line_counter <= win.drawn /\ win.window_line_counter <= 144)

---------------------------------------------------------------------------
(* Context::execute_frame (context.rs 70-75): the loop that calls          *)
(* execute_instruction until the frame counter of the PPU changes.         *)
(* frameRun holds                                                          *)
(*   running  a call is in progress                                        *)
(*   frame    the frame counter the call read when it began                *)
(*   dots     the dots the PPU has advanced since the call began           *)
(*   instrs   the execute_instruction calls of the loop so far             *)
(*   calls    the calls of execute_frame so far                            *)
(* The program is the instructions chosen for the first steps, NOPs after. *)

MaxFrameCalls   == 2     \* calls of execute_frame explored by SpecFrame
MaxFrameChoices == 3     \* instructions of the program that are not NOP
MaxInstrDots    == 24    \* dots past a frame explored: the longest instruction

\* the dots of a frame: 154 lines of 456 (ppu.rs 219-222)
FrameDots == 154 * 456

InitFrameRun ==
    [running |-> FALSE, frame |-> 0, dots |-> 0, instrs |-> 0, calls |-> 0]

\* NOP, HALT, LD A,d8, LDH (a8),A
FrameOpcodes == {0, 118, 62, 224}
\* the byte after the opcode: LD A,$80 and LDH ($40),A, which write LCDC
FrameOperand(opcode) == IF opcode = 62 THEN 128 ELSE IF opcode = 224 THEN 64 ELSE 0

\* Inner1::tick and Bus::write as the PPU sees the bus events of a step:
\* a tick is a machine cycle of the PPU, a write to $FF40 goes to Ppu::write
RECURSIVE ppu_follow(_, _, _)
ppu_follow(p, log, k) ==
    IF k > Len(log) THEN p
    ELSE Bind(IF log[k].op = "tick" THEN ppu_tick(p)
              ELSE IF log[k].op = "write" /\ log[k].addr = 65344
              THEN ppu_write_lcdc(p, log[k].val)
              ELSE p,
              LAMBDA p1 : ppu_follow(p1, log, k + 1))

\* the machine: s.c the CPU, s.ie IE, s.p the PPU with IF, s.crash the
\* panic, s.run the call of execute_frame
FrameState ==
    [c |-> cpu, ie |-> intr.interrupt_enable,
     p |-> ppu @@ ppuHist @@ [iflag |-> intr.interrupt_flag],
     crash |-> crash, run |-> frameRun]

\* the machine record of s at the start of a step
frame_machine(s, checked, inp) ==
    s.c @@ [iflag |-> s.p.iflag, ienable |-> s.ie,
            crash |-> "", checks |-> checked, inp |-> inp, val |-> 0, val16 |-> 0,
            log |-> <<>>, nticks |-> 0, raiseAt |-> 0, raiseBits |-> 0,
            kind |-> "", opcode |-> -1, cb |-> -1, taken |-> FALSE,
            irq |-> -1, arbIF |-> -1, ackIF |-> -1]

\* Context::execute_instruction: the CPU step at opcode, with the PPU
\* following its bus events
frame_instruction(s, checked, opcode) ==
    Bind(execute_instruction(
            frame_machine(s, checked, <<opcode, FrameOperand(opcode),
                                        FrameOperand(opcode), FrameOperand(opcode)>>)),
         LAMBDA r :
    Bind(ppu_follow([s.p EXCEPT !.iflag = r.iflag], r.log, 1), LAMBDA p :
       [c |-> [k \in DOMAIN s.c |-> r[k]], ie |-> r.ienable, p |-> p,
        crash |-> r.crash,
        run |-> [s.run EXCEPT !.dots = @ + 4 * r.nticks, !.instrs = @ + 1]]))

\* the condition of the loop, and the bound of the model on its length
frame_goes_on(s) ==
    /\ s.crash = ""
    /\ s.p.frame = s.run.frame
    /\ s.run.dots < FrameDots + MaxInstrDots

\* Context::execute_frame for at most k iterations of its loop over NOPs
\* (or the halted CPU): the first half of them and then the rest
RECURSIVE execute_frame(_, _, _)
execute_frame(s, checked, k) ==
    IF k = 0 \/ ~frame_goes_on(s) THEN s
    ELSE IF k = 1 THEN frame_instruction(s, checked, 0)
    ELSE Bind(execute_frame(s, checked, k \div 2),
              LAMBDA r : execute_frame(r, checked, k - (k \div 2)))

\* the result s becomes the state
FrameBecomes(s) ==
    /\ cpu' = s.c
    /\ crash' = s.crash
    /\ ppu' = [k \in DOMAIN ppu |-> s.p[k]]
    /\ ppuHist' = [k \in DOMAIN ppuHist |-> s.p[k]]
    /\ intr' = [interrupt_flag |-> s.p.iflag, interrupt_enable |-> s.ie]
    /\ frameRun' = s.run
    /\ UNCHANGED <<checks, last, cartVars, timerVars, dmaVars, hdmaVars,
                   serialVars, joypadVars, config, statOut, frameRest>>

\* Context::execute_frame begins: it reads the frame counter
FrameCall ==
    /\ crash = ""
    /\ ~frameRun.running
    /\ frameRun.calls < MaxFrameCalls
    /\ frameRun' = [running |-> TRUE, frame |-> ppu.frame, dots |-> 0,
                    instrs |-> 0, calls |-> frameRun.calls + 1]
    /\ UNCHANGED <<cpuVars, cartVars, ppuVars, timerVars, dmaVars, hdmaVars,
                   serialVars, joypadVars, config, statOut, frameRest>>

\* an iteration of the loop at one of the chosen instructions
FrameStep ==
    /\ frameRun.running
    /\ frame_goes_on(FrameState)
    /\ steps < MaxFrameChoices
    /\ \E opcode \in FrameOpcodes :
          \E s \in {frame_instruction(FrameState, checks, opcode)} :
             FrameBecomes(s) /\ steps' = steps + 1

\* the iterations of the loop during one line of the PPU, past the chosen
\* instructions
FrameRun ==
    /\ frameRun.running
    /\ frame_goes_on(FrameState)
    /\ steps >= MaxFrameChoices
    /\ \E s \in {execute_frame(FrameState, checks, LineCycles)} :
          FrameBecomes(s) /\ steps' = steps

\* the loop ends: the frame counter is no longer the one read
FrameReturn ==
    /\ frameRun.running
    /\ ppu.frame # frameRun.frame
    /\ frameRun' = [frameRun EXCEPT !.running = FALSE]
    /\ UNCHANGED <<cpuVars, cartVars, ppuVars, timerVars, dmaVars, hdmaVars,
                   serialVars, joypadVars, config, statOut, frameRest>>

\* C40: a call of execute_frame in which no instruction fails returns: the
\* frame counter changes before the PPU has advanced more than 70224 dots
\* since the call began, also with the CPU halted and no interrupt enabled
\* and with the LCD disabled, and the loop ends with the instruction during
\* which it changed.
C40_FrameReturns ==
    /\ []((frameRun.running /\ ppu.frame = frameRun.frame) =>
             (crash = "" /\ frameRun.dots < FrameDots))
    /\ [](frameRun.running => frameRun.dots < FrameDots + MaxInstrDots)
    /\ (frameRun.running ~> ~frameRun.running)

\* C40 witness: a call has returned after a whole frame with the CPU halted
\* from its first instruction on, no interrupt enabled and the LCD disabled
C40_Witness ==
    /\ ~frameRun.running
    /\ frameRun.calls > 0
    /\ frameRun.instrs = FrameDots \div 4
    /\ cpu.halt /\ intr.interrupt_enable = 0
    /\ ~lcd_enable(ppu)
    /\ ppu.frame = frameRun.frame + 1

---------------------------------------------------------------------------
(* The specifications.  Each explores one part of the machine from the     *)
(* state after construction and leaves the rest of it alone.               *)

\* the CPU of a release build before its first step
InitIdleCpu ==
    /\ cpu = InitCpuRegs
    /\ intr = InitIntr
    /\ crash = ""
    /\ checks = FALSE
    /\ last = NoLast
    /\ steps = 0

\* a 32 KiB cartridge without controller
InitIdleCart ==
    /\ cart = NewCartridge("RomOnly", 32768, 0)
    /\ cartOut = NoAccess
    /\ cartridge_type = PlainType(cart.mbc)

\* the parts added to the bus, as construction leaves them
InitIoRegs ==
    /\ InitHdma
    /\ InitJoypad
    /\ InitConfig
    /\ statOut = InitStatOut
    /\ busOut = InitBusOut
    /\ mbc1Hist = InitMbc1Hist
    /\ saveOut = NoSave
    /\ InitApu
    /\ statHist = InitStatHist
    /\ mbc2Hist = InitMbc2Hist
    /\ mixer = InitMixer
    /\ noiseTimer = InitNoiseTimer
    /\ scan = InitScan
    /\ win = InitWin
    /\ frameRun = InitFrameRun

\* a Game Boy Color, the device of the specifications that do not say
InitIo == InitIoRegs /\ device_mode = "GameBoyColor"

InitSpecCpu ==
    InitCpu /\ InitIdleCart /\ InitPpu /\ InitTimer /\ InitDma /\ InitIo
       /\ InitIdleSerial
NextCpu == StepCpu
SpecCpu == InitSpecCpu /\ [][NextCpu]_vars

NextIrq == StepIrq
SpecIrq == InitSpecCpu /\ [][NextIrq]_vars

InitSpecCart ==
    InitCpu /\ InitCart /\ InitPpu /\ InitTimer /\ InitDma /\ InitIo
       /\ InitIdleSerial
NextCart == CartRead \/ CartWrite
SpecCart == InitSpecCart /\ [][NextCart]_vars

InitBus == InitIdleCpu /\ InitIdleCart /\ InitPpu /\ InitTimer /\ InitDma /\ InitIo
Init == InitBus /\ InitIdleSerial

NextPpu == PpuTick \/ PpuWriteLcdc
SpecPpu == Init /\ [][NextPpu]_vars

NextTimer == TimerTick \/ TimerWrite
SpecTimer == Init /\ [][NextTimer]_vars

NextDma == DmaTick \/ DmaCpuWrite
SpecDma == Init /\ [][NextDma]_vars

NextHdma == HdmaTick \/ HdmaSetup \/ HdmaCpuWrite
SpecHdma == Init /\ [][NextHdma]_vars

InitSpecSerial == InitBus /\ InitSerial
NextSerial == SerialTick \/ SerialWrite
SpecSerial == InitSpecSerial /\ [][NextSerial]_vars

NextStat == StatTick \/ PpuWriteLcdc \/ PpuReadStat \/ PpuWriteStat
SpecStat == Init /\ [][NextStat]_vars

NextSpeed == StepSpeed \/ SpeedWrite
SpecSpeed == InitSpecCpu /\ [][NextSpeed]_vars

NextJoypad == JoypadSetKey \/ JoypadAck
SpecJoypad == Init /\ [][NextJoypad]_vars

NextHalt == StepHalt
SpecHalt == InitSpecCpu /\ [][NextHalt]_vars

\* either device
InitSpecBus ==
    /\ InitIdleCpu /\ InitIdleCart /\ InitPpu /\ InitTimer /\ InitDma
    /\ InitIoRegs /\ InitIdleSerial
    /\ device_mode \in DeviceModes
NextBus == IfWrite \/ IfRead \/ BusReadOther
SpecBus == InitSpecBus /\ [][NextBus]_vars

\* either device, before its first step
InitSpecReset ==
    /\ InitIdleCpu /\ InitIdleCart /\ InitPpu /\ InitTimer /\ InitDma
    /\ InitIoRegs /\ InitIdleSerial
    /\ device_mode \in DeviceModes
NextReset == StepHalt
SpecReset == InitSpecReset /\ [][NextReset]_vars

\* an MBC1 cartridge in either of three ROM and two RAM sizes
InitSpecMbc1 ==
    /\ InitIdleCpu /\ InitMbc1 /\ InitPpu /\ InitTimer /\ InitDma /\ InitIo
    /\ InitIdleSerial
NextMbc1 == Mbc1Read \/ Mbc1Write
SpecMbc1 == InitSpecMbc1 /\ [][NextMbc1]_vars

\* a cartridge of every type code, written to and saved
InitSpecSave ==
    /\ InitIdleCpu /\ InitSave /\ InitPpu /\ InitTimer /\ InitDma /\ InitIo
    /\ InitIdleSerial
NextSave == CartWrite \/ SaveData
SpecSave == InitSpecSave /\ [][NextSave]_vars

\* the APU: register writes, machine cycles one by one and in runs
NextApu == ApuWrite \/ ApuTick \/ ApuRun
SpecApu == Init /\ [][NextApu]_vars

\* the pulse channels set up and triggered, and left to their length timers
NextLength == LenWrite \/ ApuTick \/ LenRun
SpecLength == Init /\ [][NextLength]_vars

\* the PPU dot by dot, with LCDC writes
NextDots == PpuDot \/ PpuWriteLcdc
SpecDots == Init /\ [][NextDots]_vars

\* the PPU dot by dot, with writes to LCDC, STAT and LYC and the CPU's
\* acknowledgement of the LCD-STAT interrupt
NextStatIrq == StatDot \/ StatWriteLcdc \/ StatWriteEnable \/ StatAck
SpecStatIrq == Init /\ [][NextStatIrq]_vars

\* an MBC2 cartridge: its RAM written and read
InitSpecMbc2 ==
    /\ InitIdleCpu /\ InitMbc2 /\ InitPpu /\ InitTimer /\ InitDma /\ InitIo
    /\ InitIdleSerial
NextMbc2 == Mbc2Write \/ Mbc2Read
SpecMbc2 == InitSpecMbc2 /\ [][NextMbc2]_vars

\* the mixer of the APU: NR50, NR51 and NR52 written and samples taken
NextMix == MixWrite \/ MixSample
SpecMix == Init /\ [][NextMix]_vars

\* the noise channel of either build: NR43 written, triggered, and run from
\* one shift of the LFSR to the next
NextLfsr == LfsrWrite \/ LfsrRun
SpecLfsr == InitSpecCpu /\ [][NextLfsr]_vars

\* either device: sprites written to OAM and a scanline rendered
NextObj == ObjWrite \/ ObjWriteLcdc \/ ObjRender
SpecObj == InitSpecBus /\ [][NextObj]_vars

\* the window moved while frames are drawn, in either build
InitSpecWin == InitSpecCpu
NextWin == WinLine \/ WinWrite
SpecWin == InitSpecWin /\ [][NextWin]_vars

\* the host calls execute_frame
NextFrame == FrameCall \/ FrameStep \/ FrameRun \/ FrameReturn
SpecFrame == Init /\ [][NextFrame]_vars
\* The loop of execute_frame is sequential code: once entered it goes on
\* until it returns.  FrameLoopFair is weak fairness of its iterations with
\* the enabling condition written out: FrameStep and FrameRun are total
\* under their guards, which together are FrameLoopEnabled, and every
\* iteration advances frameRun.instrs.
FrameLoopEnabled == frameRun.running /\ frame_goes_on(FrameState)
FrameLoopFair ==
    []<>(~FrameLoopEnabled) \/ []<><<FrameStep \/ FrameRun>>_vars
SpecFrameFair == SpecFrame /\ FrameLoopFair /\ WF_vars(FrameReturn)

===========================================================================
